---- MODULE Spec2Model ----
(***************************************************************************)
(* Model of the movie-data pipeline: clean_movies, enrich_movies and       *)
(* get_top_movies, over data frames represented as a column sequence and a *)
(* row sequence.                                                           *)
(***************************************************************************)
EXTENDS Integers, Sequences, FiniteSets, TLC

(***************************************************************************)
(* Cell values.  A cell is a record with a type tag t:                     *)
(*   "na"   missing (None / NaN / NaT)                                     *)
(*   "num"  the number n / d  (d > 0; integers have d = 1)                 *)
(*   "str"  the text s                                                     *)
(*   "list" a parsed list of dicts; l holds each dict's 'name' ("" when    *)
(*          the dict has no usable name); n = 1 when the names are         *)
(*          numbers, not texts (l then holds their digits)                 *)
(*   "dict" a parsed dict whose 'name' is s ("" when it has none)          *)
(*   "date" a timestamp; n = year * 100 + month                            *)
(*   "bool" a boolean; n = 1 for True, 0 for False                         *)
(***************************************************************************)
NA == [t |-> "na", n |-> 0, d |-> 1, s |-> "", l |-> <<>>]
Num(x) == [t |-> "num", n |-> x, d |-> 1, s |-> "", l |-> <<>>]
Frac(x, y) == [t |-> "num", n |-> x, d |-> y, s |-> "", l |-> <<>>]
Str(x) == [t |-> "str", n |-> 0, d |-> 1, s |-> x, l |-> <<>>]
List(x) == [t |-> "list", n |-> 0, d |-> 1, s |-> "", l |-> x]
Dict(x) == [t |-> "dict", n |-> 0, d |-> 1, s |-> x, l |-> <<>>]
NumList(x) == [t |-> "list", n |-> 1, d |-> 1, s |-> "", l |-> x]
Date(x) == [t |-> "date", n |-> x, d |-> 1, s |-> "", l |-> <<>>]
Bool(b) == [t |-> "bool", n |-> IF b THEN 1 ELSE 0, d |-> 1, s |-> "", l |-> <<>>]

isna(v) == v.t = "na"
notna(v) == v.t # "na"

Range(f) == {f[i] : i \in DOMAIN f}
InSeq(x, sq) == \E i \in DOMAIN sq : sq[i] = x

(***************************************************************************)
(* Program constants (src/src/utils/constants.py and the literals of       *)
(* clean_movies / enrich_movies).                                          *)
(***************************************************************************)
COLUMNS_TO_DROP == <<"adult", "imdb_id", "original_title", "video", "homepage">>

FINAL_COLUMN_ORDER ==
    <<"id", "title", "tagline", "release_date", "genres",
      "belongs_to_collection", "original_language", "budget_musd",
      "revenue_musd", "production_companies", "production_countries",
      "vote_count", "vote_average", "popularity", "runtime", "overview",
      "spoken_languages", "poster_path", "cast", "cast_size", "director",
      "crew_size">>

Million == 1000000
min_non_null == 10

(***************************************************************************)
(* ast.literal_eval on the texts the model feeds it.  A text that is the   *)
(* repr of a list of dicts or of a dict parses to that structure; a bare   *)
(* number parses to a number; every other text (a flattened "A|B" string,  *)
(* a bare word, a truncated literal) raises ValueError or SyntaxError.     *)
(* The text of a dict display with a list as key raises TypeError          *)
(* (unhashable type) when literal_eval builds the dict.                    *)
(***************************************************************************)
LiteralOk(s) ==
    s \in {"[{'name': 'Action'}]", "[{'name': 'Action'}, {'name': 'Drama'}]",
           "[{'id': 7}]", "[]", "{'name': 'Saga'}", "{'id': 7}", "1917",
           "[{'name': 7}]"}

\* the exception of ast.literal_eval(s) that `except (ValueError,
\* SyntaxError)` does not catch, "None" when there is none
literal_eval_raises(s) == IF s = "{[1]: 2}" THEN "TypeError" ELSE "None"

LiteralValue(s) ==
    CASE s = "[{'name': 'Action'}]" -> List(<<"Action">>)
      [] s = "[{'name': 'Action'}, {'name': 'Drama'}]" -> List(<<"Action", "Drama">>)
      [] s = "[{'id': 7}]" -> List(<<"">>)
      [] s = "[]" -> List(<<>>)
      [] s = "{'name': 'Saga'}" -> Dict("Saga")
      [] s = "{'id': 7}" -> Dict("")
      [] s = "1917" -> Num(1917)
      [] s = "[{'name': 7}]" -> NumList(<<"7">>)
      [] OTHER -> NA

\* str(value) for the non-container values safe_eval hands to literal_eval
StrOf(v) ==
    CASE v.t = "str" -> v.s
      [] v.t = "num" /\ v.n = 1917 /\ v.d = 1 -> "1917"
      [] OTHER -> "?"

safe_eval(value) ==
    IF isna(value) THEN NA
    ELSE IF value.t \in {"dict", "list"} THEN value
    ELSE IF LiteralOk(StrOf(value)) THEN LiteralValue(StrOf(value))
    ELSE NA

\* Python truthiness of a parsed value
Truthy(v) ==
    CASE v.t = "na" -> FALSE
      [] v.t = "list" -> Len(v.l) > 0
      [] v.t = "dict" -> TRUE
      [] v.t = "str" -> v.s # ""
      [] v.t = "num" -> v.n # 0
      [] OTHER -> v.n # 0

extract_collection_name(value) ==
    LET parsed == safe_eval(value)
    IN IF Truthy(parsed) /\ parsed.t = "dict"
       THEN (IF parsed.s = "" THEN NA ELSE Str(parsed.s))
       ELSE NA

RECURSIVE Join(_)
Join(names) ==
    IF Len(names) = 0 THEN ""
    ELSE IF Len(names) = 1 THEN names[1]
    ELSE names[1] \o "|" \o Join(Tail(names))

NonEmpty(s) == s # ""

extract_names_from_list(value) ==
    LET parsed == safe_eval(value)
    IN IF Truthy(parsed) /\ parsed.t = "list"
       THEN LET names == SelectSeq(parsed.l, NonEmpty)
            IN IF Len(names) > 0 THEN Str(Join(names)) ELSE NA
       ELSE NA


\* extract_language_codes reads item.get('english_name') or item.get('name')
\* or item.get('iso_639_1'); the model's dicts carry the first usable of the
\* three in l, so the extraction coincides with extract_names_from_list.
extract_language_codes(value) ==
    LET parsed == safe_eval(value)
    IN IF Truthy(parsed) /\ parsed.t = "list"
       THEN LET names == SelectSeq(parsed.l, NonEmpty)
            IN IF Len(names) > 0 THEN Str(Join(names)) ELSE NA
       ELSE NA

(***************************************************************************)
(* The exception a parser call ends with, "None" when it returns.  The     *)
(* operators above give the returned value of a call that returns.         *)
(***************************************************************************)
safe_eval_raises(value) ==
    IF isna(value) \/ value.t \in {"dict", "list"} THEN "None"
    ELSE literal_eval_raises(StrOf(value))

\* parsed.get('name') on a dict does not raise
extract_collection_name_raises(value) == safe_eval_raises(value)

\* separator.join(names) raises TypeError when a name is not a str
join_raises(parsed) ==
    IF parsed.n = 1 /\ Len(SelectSeq(parsed.l, NonEmpty)) > 0 THEN "TypeError" ELSE "None"

extract_names_from_list_raises(value) ==
    IF safe_eval_raises(value) # "None" THEN safe_eval_raises(value)
    ELSE LET parsed == safe_eval(value)
         IN IF Truthy(parsed) /\ parsed.t = "list" THEN join_raises(parsed) ELSE "None"

extract_language_codes_raises(value) ==
    IF safe_eval_raises(value) # "None" THEN safe_eval_raises(value)
    ELSE LET parsed == safe_eval(value)
         IN IF Truthy(parsed) /\ parsed.t = "list" THEN join_raises(parsed) ELSE "None"

\* the values handed to the parsers
ParseInputs ==
    {NA, Num(1917), Dict("Saga"), Dict(""),
     List(<<>>), List(<<"Action">>), List(<<"Action", "Drama">>), List(<<"">>),
     List(<<"Action", "">>), NumList(<<"7">>), NumList(<<"7", "8">>)}
    \cup {Str(x) : x \in {"[{'name': 'Action'}]", "[{'name': 'Action'}, {'name': 'Drama'}]",
                          "[{'id': 7}]", "[]", "{'name': 'Saga'}", "{'id': 7}", "1917",
                          "[{'name': 7}]", "{[1]: 2}", "Action|Drama", "Saga", "",
                          "[{'name': 'Action'", "N/A", "nan", "{'name': "}}

ParserNames ==
    {"safe_eval", "extract_collection_name", "extract_names_from_list",
     "extract_language_codes"}

\* one call of a parser: what it returns and what it raises
ParserCall(fn, value) ==
    LET raised == CASE fn = "safe_eval" -> safe_eval_raises(value)
                    [] fn = "extract_collection_name" -> extract_collection_name_raises(value)
                    [] fn = "extract_names_from_list" -> extract_names_from_list_raises(value)
                    [] OTHER -> extract_language_codes_raises(value)
        result == CASE fn = "safe_eval" -> safe_eval(value)
                    [] fn = "extract_collection_name" -> extract_collection_name(value)
                    [] fn = "extract_names_from_list" -> extract_names_from_list(value)
                    [] OTHER -> extract_language_codes(value)
    IN [fn |-> fn, value |-> value,
        result |-> IF raised = "None" THEN result ELSE NA, raised |-> raised]

(***************************************************************************)
(* Data frames: cols is the column sequence, rows the row sequence; a row  *)
(* is a function from the frame's columns to cells.  The positional index  *)
(* of a row in rows is its index after reset_index(drop=True).             *)
(***************************************************************************)
HasCol(df, c) == InSeq(c, df.cols)

Restrict(r, cs) == [c \in cs |-> r[c]]

\* df.drop(columns=drop)
DropCols(df, drop) ==
    LET keep == SelectSeq(df.cols, LAMBDA c : ~InSeq(c, drop))
    IN [cols |-> keep,
        rows |-> [i \in DOMAIN df.rows |-> Restrict(df.rows[i], Range(keep))]]

\* df[c] = series: overwrites the column in place, or appends a new one;
\* series[i] is the new value of row i
AssignCol(df, c, series) ==
    [cols |-> IF HasCol(df, c) THEN df.cols ELSE Append(df.cols, c),
     rows |-> [i \in DOMAIN df.rows |->
                 [k \in Range(df.cols) \cup {c} |->
                    IF k = c THEN series[i] ELSE df.rows[i][k]]]]

\* df[mask]: the rows whose mask entry is True, in order
FilterRows(df, mask) ==
    [cols |-> df.cols,
     rows |-> LET F[i \in 0..Len(df.rows)] ==
                      IF i = 0 THEN <<>>
                      ELSE IF mask[i] THEN Append(F[i - 1], df.rows[i])
                      ELSE F[i - 1]
              IN F[Len(df.rows)]]

\* df[final_columns]
SelectCols(df, cs) ==
    [cols |-> cs,
     rows |-> [i \in DOMAIN df.rows |-> Restrict(df.rows[i], Range(cs))]]

(***************************************************************************)
(* Type coercion.                                                          *)
(***************************************************************************)
NumericText(s) == s \in {"0", "1", "2", "5000000"}

TextNumber(s) ==
    CASE s = "0" -> 0
      [] s = "1" -> 1
      [] s = "2" -> 2
      [] s = "5000000" -> 5000000
      [] OTHER -> 0

\* pd.to_numeric(x, errors='coerce')
to_numeric(v) ==
    CASE v.t = "num" -> v
      [] v.t = "bool" -> Num(v.n)
      [] v.t = "str" -> IF NumericText(v.s) THEN Num(TextNumber(v.s)) ELSE NA
      [] OTHER -> NA

DateText(s) == s \in {"2019-04-24", "2009-12-15"}

TextDate(s) ==
    CASE s = "2019-04-24" -> 201904
      [] s = "2009-12-15" -> 200912
      [] OTHER -> 0

\* pd.to_datetime(x, errors='coerce')
to_datetime(v) ==
    CASE v.t = "date" -> v
      [] v.t = "str" -> IF DateText(v.s) THEN Date(TextDate(v.s)) ELSE NA
      [] OTHER -> NA

RECURSIVE GCD(_, _)
GCD(a, b) == IF b = 0 THEN a ELSE GCD(b, a % b)

Abs(x) == IF x < 0 THEN -x ELSE x

\* the rational x / y in lowest terms, y # 0
Ratio(x, y) ==
    LET g == GCD(Abs(x), Abs(y))
        sg == IF y < 0 THEN -1 ELSE 1
    IN Frac(sg * (x \div g), sg * (y \div g))

\* series / k
DivBy(v, k) == IF v.t = "num" THEN Ratio(v.n, v.d * k) ELSE NA

\* series.replace(0, np.nan)
ReplaceZero(v) == IF v.t = "num" /\ v.n = 0 THEN NA ELSE v

placeholders == {"No Data", "No data", "N/A", "n/a", "", " "}

\* series.replace(placeholders, np.nan)
ReplacePlaceholder(v) == IF v.t = "str" /\ v.s \in placeholders THEN NA ELSE v


(***************************************************************************)
(* clean_movies, step by step.                                             *)
(***************************************************************************)
\* Step 1: drop the irrelevant columns that exist
CleanStep1(df) ==
    DropCols(df, SelectSeq(COLUMNS_TO_DROP, LAMBDA c : HasCol(df, c)))

\* df[c] = df[c].apply(extract_names_from_list) when the column exists
ParseNames(df, c) ==
    IF HasCol(df, c)
    THEN AssignCol(df, c, [i \in DOMAIN df.rows |-> extract_names_from_list(df.rows[i][c])])
    ELSE df

\* Step 2: parse the JSON-like columns
CleanStep2(df) ==
    LET a == IF HasCol(df, "belongs_to_collection")
             THEN AssignCol(df, "belongs_to_collection",
                            [i \in DOMAIN df.rows |->
                               extract_collection_name(df.rows[i]["belongs_to_collection"])])
             ELSE df
        b == ParseNames(a, "genres")
        c == IF HasCol(b, "spoken_languages")
             THEN AssignCol(b, "spoken_languages",
                            [i \in DOMAIN b.rows |->
                               extract_language_codes(b.rows[i]["spoken_languages"])])
             ELSE b
        d == ParseNames(c, "production_countries")
    IN ParseNames(d, "production_companies")

numeric_columns ==
    <<"budget", "id", "popularity", "revenue", "runtime", "vote_count", "vote_average">>

\* for col in numeric_columns: if col in df.columns: to_numeric
ToNumericCols(df) ==
    LET G[k \in 0..Len(numeric_columns)] ==
            IF k = 0 THEN df
            ELSE IF HasCol(G[k - 1], numeric_columns[k])
            THEN AssignCol(G[k - 1], numeric_columns[k],
                           [i \in DOMAIN df.rows |->
                              to_numeric(G[k - 1].rows[i][numeric_columns[k]])])
            ELSE G[k - 1]
    IN G[Len(numeric_columns)]

\* Step 3: numeric columns and release_date
CleanStep3(df) ==
    LET a == ToNumericCols(df)
    IN IF HasCol(a, "release_date")
       THEN AssignCol(a, "release_date",
                      [i \in DOMAIN a.rows |-> to_datetime(a.rows[i]["release_date"])])
       ELSE a

\* for col in cs: if col in df.columns: df[col] = df[col].replace(0, np.nan)
ReplaceZeroCols(df, cs) ==
    LET G[k \in 0..Len(cs)] ==
            IF k = 0 THEN df
            ELSE IF HasCol(G[k - 1], cs[k])
            THEN AssignCol(G[k - 1], cs[k],
                           [i \in DOMAIN df.rows |-> ReplaceZero(G[k - 1].rows[i][cs[k]])])
            ELSE G[k - 1]
    IN G[Len(cs)]

\* faulty variant of ZeroToMissing: only the budget column is treated
ZeroToMissing_budget_only(df) == ReplaceZeroCols(df, <<"budget">>)

\* the zero replacement of step 4
ZeroToMissing(df) == ReplaceZeroCols(df, <<"budget", "revenue", "runtime">>)

\* the placeholder replacement of step 4
PlaceholdersToMissing(df) ==
    LET cs == <<"overview", "tagline">>
        G[k \in 0..Len(cs)] ==
            IF k = 0 THEN df
            ELSE IF HasCol(G[k - 1], cs[k])
            THEN AssignCol(G[k - 1], cs[k],
                           [i \in DOMAIN df.rows |->
                              ReplacePlaceholder(G[k - 1].rows[i][cs[k]])])
            ELSE G[k - 1]
    IN G[Len(cs)]

\* Step 4: zeros, the scaled columns, the text placeholders
CleanStep4(df) ==
    LET a == ZeroToMissing(df)
        b == IF HasCol(a, "budget")
             THEN AssignCol(a, "budget_musd",
                            [i \in DOMAIN a.rows |-> DivBy(a.rows[i]["budget"], Million)])
             ELSE a
        c == IF HasCol(b, "revenue")
             THEN AssignCol(b, "revenue_musd",
                            [i \in DOMAIN b.rows |-> DivBy(b.rows[i]["revenue"], Million)])
             ELSE b
    IN PlaceholdersToMissing(c)

\* faulty variant of drop_duplicates: keep='last'
drop_duplicates_keep_last(df) ==
    [cols |-> df.cols,
     rows |-> LET keep == {i \in DOMAIN df.rows :
                             \A j \in (i + 1)..Len(df.rows) :
                                df.rows[j]["id"] # df.rows[i]["id"]}
                  F[i \in 0..Len(df.rows)] ==
                      IF i = 0 THEN <<>>
                      ELSE IF i \in keep THEN Append(F[i - 1], df.rows[i])
                      ELSE F[i - 1]
              IN F[Len(df.rows)]]

\* df.drop_duplicates(subset=['id'], keep='first'): a row is dropped when an
\* earlier row has an equal id (missing ids count as equal to each other)
drop_duplicates(df) ==
    [cols |-> df.cols,
     rows |-> LET keep == {i \in DOMAIN df.rows :
                             \A j \in 1..(i - 1) : df.rows[j]["id"] # df.rows[i]["id"]}
                  F[i \in 0..Len(df.rows)] ==
                      IF i = 0 THEN <<>>
                      ELSE IF i \in keep THEN Append(F[i - 1], df.rows[i])
                      ELSE F[i - 1]
              IN F[Len(df.rows)]]

NonNullCount(df, r) == Cardinality({c \in Range(df.cols) : notna(r[c])})

\* faulty variant of CleanStep5: the rows without id or title go first, the
\* duplicates after them
CleanStep5_filter_first(df) ==
    LET a == IF HasCol(df, "id") /\ HasCol(df, "title")
             THEN FilterRows(df, [i \in DOMAIN df.rows |->
                                    notna(df.rows[i]["id"]) /\ notna(df.rows[i]["title"])])
             ELSE df
        b == IF HasCol(a, "id") THEN drop_duplicates(a) ELSE a
    IN FilterRows(b, [i \in DOMAIN b.rows |-> NonNullCount(b, b.rows[i]) >= min_non_null])

\* Step 5: duplicates, rows without id or title, sparse rows
CleanStep5(df) ==
    LET a == IF HasCol(df, "id") THEN drop_duplicates(df) ELSE df
        b == IF HasCol(a, "id") /\ HasCol(a, "title")
             THEN FilterRows(a, [i \in DOMAIN a.rows |->
                                   notna(a.rows[i]["id"]) /\ notna(a.rows[i]["title"])])
             ELSE a
    IN FilterRows(b, [i \in DOMAIN b.rows |-> NonNullCount(b, b.rows[i]) >= min_non_null])

\* faulty variant of CleanStep6: the status column goes, the rows all stay
CleanStep6_no_filter(df) ==
    IF HasCol(df, "status") THEN DropCols(df, <<"status">>) ELSE df

\* Step 6: released movies only, then the status column goes
CleanStep6(df) ==
    IF HasCol(df, "status")
    THEN DropCols(FilterRows(df, [i \in DOMAIN df.rows |->
                                    df.rows[i]["status"] = Str("Released")]),
                  <<"status">>)
    ELSE df

\* faulty variant of CleanStep7: the columns outside the canonical order are lost
CleanStep7_canonical_only(df) ==
    SelectCols(df, SelectSeq(FINAL_COLUMN_ORDER, LAMBDA c : HasCol(df, c)))

\* Step 7: canonical columns first, the others after them
CleanStep7(df) ==
    LET available_columns == SelectSeq(FINAL_COLUMN_ORDER, LAMBDA c : HasCol(df, c))
        extra_columns == SelectSeq(df.cols, LAMBDA c : ~InSeq(c, FINAL_COLUMN_ORDER))
    IN SelectCols(df, available_columns \o extra_columns)

clean_movies(df) ==
    CleanStep7(CleanStep6(CleanStep5(CleanStep4(CleanStep3(CleanStep2(CleanStep1(df)))))))


(***************************************************************************)
(* enrich_movies.                                                          *)
(***************************************************************************)
\* a - b and a / b on cells; NaN propagates
SubV(a, b) ==
    IF a.t = "num" /\ b.t = "num" THEN Ratio(a.n * b.d - b.n * a.d, a.d * b.d) ELSE NA

DivV(a, b) ==
    IF a.t = "num" /\ b.t = "num" /\ b.n # 0 THEN Ratio(a.n * b.d, a.d * b.n) ELSE NA

MulV(a, b) ==
    IF a.t = "num" /\ b.t = "num" THEN Ratio(a.n * b.n, a.d * b.d) ELSE NA

AddV(a, b) ==
    IF a.t = "num" /\ b.t = "num" THEN Ratio(a.n * b.d + b.n * a.d, a.d * b.d) ELSE NA

\* series > 0 (False for NaN)
Positive(v) == v.t = "num" /\ v.n > 0

\* a < b on numeric cells
LessV(a, b) == a.n * b.d < b.n * a.d

\* faulty variant of EnrichProfit: a missing budget counts as 0
EnrichProfit_fillna(df) ==
    IF HasCol(df, "revenue_musd") /\ HasCol(df, "budget_musd")
    THEN AssignCol(df, "profit_musd",
                   [i \in DOMAIN df.rows |->
                      SubV(df.rows[i]["revenue_musd"],
                           IF isna(df.rows[i]["budget_musd"]) THEN Num(0)
                           ELSE df.rows[i]["budget_musd"])])
    ELSE df

EnrichProfit(df) ==
    IF HasCol(df, "revenue_musd") /\ HasCol(df, "budget_musd")
    THEN AssignCol(df, "profit_musd",
                   [i \in DOMAIN df.rows |->
                      SubV(df.rows[i]["revenue_musd"], df.rows[i]["budget_musd"])])
    ELSE df

\* faulty variant of RoiOf: no guard on the budget
RoiOf_unguarded(r) == DivV(r["profit_musd"], r["budget_musd"])

\* np.where(budget_musd > 0, profit_musd / budget_musd, np.nan)
RoiOf(r) ==
    IF Positive(r["budget_musd"]) THEN DivV(r["profit_musd"], r["budget_musd"]) ELSE NA

EnrichRoi(df) ==
    IF HasCol(df, "profit_musd") /\ HasCol(df, "budget_musd")
    THEN AssignCol(df, "roi", [i \in DOMAIN df.rows |-> RoiOf(df.rows[i])])
    ELSE df

YearOf(v) == IF v.t = "date" THEN Num(v.n \div 100) ELSE NA
MonthOf(v) == IF v.t = "date" THEN Num(v.n % 100) ELSE NA

EnrichDate(df) ==
    IF HasCol(df, "release_date")
    THEN LET a == AssignCol(df, "release_date",
                            [i \in DOMAIN df.rows |-> to_datetime(df.rows[i]["release_date"])])
             b == AssignCol(a, "release_year",
                            [i \in DOMAIN a.rows |-> YearOf(a.rows[i]["release_date"])])
         IN AssignCol(b, "release_month",
                      [i \in DOMAIN b.rows |-> MonthOf(b.rows[i]["release_date"])])
    ELSE df

\* faulty variant of categorize_runtime: the upper bound 150 is exclusive
categorize_runtime_exclusive(minutes) ==
    IF minutes.t # "num" THEN NA
    ELSE IF LessV(minutes, Num(90)) THEN Str("Short")
    ELSE IF LessV(minutes, Num(150)) THEN Str("Medium")
    ELSE Str("Long")

categorize_runtime(minutes) ==
    IF minutes.t # "num" THEN NA
    ELSE IF LessV(minutes, Num(90)) THEN Str("Short")
    ELSE IF ~LessV(Num(150), minutes) THEN Str("Medium")
    ELSE Str("Long")

\* faulty variant of EnrichRuntime: the category is written over the runtime column
EnrichRuntime_overwrite(df) ==
    IF HasCol(df, "runtime")
    THEN AssignCol(df, "runtime",
                   [i \in DOMAIN df.rows |-> categorize_runtime(df.rows[i]["runtime"])])
    ELSE df

EnrichRuntime(df) ==
    IF HasCol(df, "runtime")
    THEN AssignCol(df, "runtime_category",
                   [i \in DOMAIN df.rows |-> categorize_runtime(df.rows[i]["runtime"])])
    ELSE df

\* faulty variant of EnrichFranchise: an is_franchise column already in the
\* input is kept as it is
EnrichFranchise_keep(df) ==
    IF HasCol(df, "belongs_to_collection") /\ ~HasCol(df, "is_franchise")
    THEN AssignCol(df, "is_franchise",
                   [i \in DOMAIN df.rows |-> Bool(notna(df.rows[i]["belongs_to_collection"]))])
    ELSE df

EnrichFranchise(df) ==
    IF HasCol(df, "belongs_to_collection")
    THEN AssignCol(df, "is_franchise",
                   [i \in DOMAIN df.rows |-> Bool(notna(df.rows[i]["belongs_to_collection"]))])
    ELSE df

min_votes == 100

EnrichVoteScore(df) ==
    IF HasCol(df, "vote_average") /\ HasCol(df, "vote_count")
    THEN AssignCol(df, "vote_score",
                   [i \in DOMAIN df.rows |->
                      MulV(DivV(df.rows[i]["vote_count"],
                                AddV(df.rows[i]["vote_count"], Num(min_votes))),
                           df.rows[i]["vote_average"])])
    ELSE df

enrich_movies(df) ==
    EnrichVoteScore(EnrichFranchise(EnrichRuntime(EnrichDate(EnrichRoi(EnrichProfit(df))))))


(***************************************************************************)
(* Raw batches: what fetch_movies hands to clean_movies.  Every record has *)
(* a poster_path of its own, so a record can be followed through the       *)
(* stages.  A batch varies one aspect of its records (identity, money or   *)
(* nested fields) and holds the other fields at typical values.            *)
(***************************************************************************)
MaxRows == 2

RawColumnOrder ==
    <<"adult", "belongs_to_collection", "budget", "genres", "id",
      "original_language", "overview", "popularity", "poster_path",
      "release_date", "revenue", "runtime", "status", "tagline", "title",
      "vote_average", "vote_count", "director">>

PosterOf(i) ==
    CASE i = 1 -> Str("/p1.jpg")
      [] i = 2 -> Str("/p2.jpg")
      [] i = 3 -> Str("/p3.jpg")
      [] i = 4 -> Str("/p4.jpg")
      [] OTHER -> Str("/p5.jpg")

\* the record at position i of a batch; ch gives the fields that vary
RawRow(i, ch) ==
    [c \in Range(RawColumnOrder) |->
        CASE c = "id" -> ch.id
          [] c = "title" -> ch.title
          [] c = "status" -> ch.status
          [] c = "budget" -> ch.budget
          [] c = "revenue" -> ch.revenue
          [] c = "runtime" -> ch.runtime
          [] c = "genres" -> ch.genres
          [] c = "belongs_to_collection" -> ch.collection
          [] c = "poster_path" -> PosterOf(i)
          [] c = "adult" -> Bool(FALSE)
          [] OTHER ->
               IF ch.fill = "sparse" THEN NA
               ELSE CASE c = "original_language" -> Str("en")
                      [] c = "overview" -> Str("An overview")
                      [] c = "popularity" -> Num(7)
                      [] c = "release_date" -> Str("2019-04-24")
                      [] c = "tagline" -> Str("N/A")
                      [] c = "vote_average" -> Num(8)
                      [] c = "vote_count" -> Str("x")
                      [] OTHER -> Str("A|B")]

\* records that differ in identity, title and status
IdentityChoices ==
    [id : {Num(1), Num(2), NA}, title : {Str("T"), NA},
     status : {Str("Released"), Str("Planned")}, fill : {"full"},
     budget : {Num(5 * Million)}, revenue : {Str("5000000")}, runtime : {Num(120)},
     genres : {List(<<"Action", "Drama">>)}, collection : {Dict("Saga")}]

\* records that differ in budget, revenue and runtime
MoneyChoices ==
    [id : {NA}, title : {Str("T")}, status : {Str("Released")},
     fill : {"full"},
     budget : {Num(0), Num(-Million), Num(5 * Million)},
     revenue : {Num(0), Num(7 * Million)}, runtime : {Num(0), Num(120)},
     genres : {List(<<"Action", "Drama">>)}, collection : {Dict("Saga")}]

\* sparse records that differ in the genres, or else in the collection and
\* in having a status
NestedChoices ==
    {ch \in [id : {NA}, title : {Str("T")}, status : {Str("Released"), NA},
             fill : {"sparse"},
             budget : {Num(5 * Million)}, revenue : {Num(7 * Million)},
             runtime : {Num(120)},
             genres : {List(<<"Action", "">>),
                       Str("[{'name': 'Action'}, {'name': 'Drama'}]"),
                       Str("Action|Drama"), List(<<>>)},
             collection : {Dict("Saga"), Str("{'name': 'Saga'}"), NA}] :
        \/ ch.genres = List(<<"Action", "">>)
        \/ ch.collection = Dict("Saga") /\ ch.status = Str("Released")}

\* in the money and nested batches the record at position i has id i
WithId(i, ch) == IF ch.id = NA THEN [ch EXCEPT !.id = Num(i)] ELSE ch

SetToSeq(cs, order) == SelectSeq(order, LAMBDA c : c \in cs)

RawBatch(choices, absent) ==
    DropCols([cols |-> RawColumnOrder,
              rows |-> [i \in DOMAIN choices |-> RawRow(i, WithId(i, choices[i]))]],
             SetToSeq(absent, RawColumnOrder))

EmptyFrame == [cols |-> <<>>, rows |-> <<>>]

(***************************************************************************)
(* get_top_movies.                                                         *)
(***************************************************************************)
\* df[filter_condition] when a filter is given
RankFilter(df, has_filter, mask) == IF has_filter THEN FilterRows(df, mask) ELSE df

\* faulty variant of RankDropna: rows with a missing metric stay
RankDropna_keep(df, column) == df

\* filtered_df.dropna(subset=[column])
RankDropna(df, column) ==
    FilterRows(df, [i \in DOMAIN df.rows |-> notna(df.rows[i][column])])

\* the keys of rows a, b are in sorted order (a may precede b)
InOrder(a, b, ascending) == IF ascending THEN ~LessV(b, a) ELSE ~LessV(a, b)

\* faulty variant of SortOrders: the direction flag is ignored
SortOrders_ascending_only(df, column, ascending) ==
    {p \in [DOMAIN df.rows -> DOMAIN df.rows] :
        /\ \A i, j \in DOMAIN p : i # j => p[i] # p[j]
        /\ \A i, j \in DOMAIN p :
              i < j => InOrder(df.rows[p[i]][column], df.rows[p[j]][column], TRUE)}

\* sort_values(by=column, ascending=ascending) with the default
\* kind='quicksort', which is not a stable sort: the result is some
\* arrangement of the rows with the keys in order, and rows with equal keys
\* may come out in any relative order.  p[i] is the row placed at position i.
SortOrders(df, column, ascending) ==
    {p \in [DOMAIN df.rows -> DOMAIN df.rows] :
        /\ \A i, j \in DOMAIN p : i # j => p[i] # p[j]
        /\ \A i, j \in DOMAIN p :
              i < j => InOrder(df.rows[p[i]][column], df.rows[p[j]][column], ascending)}

\* .head(n)
head(rows, n) ==
    IF n >= 0 THEN SubSeq(rows, 1, IF n < Len(rows) THEN n ELSE Len(rows))
    ELSE SubSeq(rows, 1, IF Len(rows) + n > 0 THEN Len(rows) + n ELSE 0)

\* the results get_top_movies can return (display_columns=None)
get_top_movies(df, column, n, ascending, has_filter, mask) ==
    LET filtered_df == RankDropna(RankFilter(df, has_filter, mask), column)
        display_columns == <<"title", column>>
        available_columns == SelectSeq(display_columns, LAMBDA c : HasCol(filtered_df, c))
    IN {SelectCols([cols |-> filtered_df.cols,
                    rows |-> head([i \in DOMAIN p |-> filtered_df.rows[p[i]]], n)],
                   available_columns) :
           p \in SortOrders(filtered_df, column, ascending)}

(***************************************************************************)
(* Datasets handed to get_top_movies: every movie has a title of its own   *)
(* and a revenue_musd that may be missing.                                 *)
(***************************************************************************)
MaxRankRows == 3
MaxN == 3

TitleOf(i) ==
    CASE i = 1 -> Str("m1")
      [] i = 2 -> Str("m2")
      [] i = 3 -> Str("m3")
      [] i = 4 -> Str("m4")
      [] OTHER -> Str("m5")

Metrics == {NA, Num(10), Num(30), Num(50)}

RankFrame(ms) ==
    [cols |-> <<"id", "title", "revenue_musd">>,
     rows |-> [i \in DOMAIN ms |->
                 [c \in {"id", "title", "revenue_musd"} |->
                    CASE c = "id" -> Num(i)
                      [] c = "title" -> TitleOf(i)
                      [] OTHER -> ms[i]]]]

NoArgs == [column |-> "", n |-> 0, ascending |-> FALSE, has_filter |-> FALSE, mask |-> <<>>]

(***************************************************************************)
(* enrich_movies called on a batch of its own: the batch may lack columns  *)
(* and may already hold columns with the names of the derived ones.        *)
(***************************************************************************)
MaxEnrichRows == 2

EnrichColumnOrder ==
    <<"id", "title", "release_date", "belongs_to_collection", "budget_musd",
      "revenue_musd", "vote_count", "vote_average", "runtime", "poster_path",
      "profit_musd", "roi", "release_year", "release_month", "runtime_category",
      "is_franchise", "vote_score">>

DerivedColumns ==
    {"profit_musd", "roi", "release_year", "release_month", "runtime_category",
     "is_franchise", "vote_score"}

EnrichChoices ==
    [budget_musd : {NA, Num(0), Num(-1), Num(100)},
     revenue_musd : {NA, Num(500)},
     stale : BOOLEAN]

\* the record at position i; a stale record holds a text release_date that
\* is no date and values in the columns named like the derived ones
EnrichRow(i, ch) ==
    [c \in Range(EnrichColumnOrder) |->
        CASE c = "id" -> Num(i)
          [] c = "title" -> TitleOf(i)
          [] c = "poster_path" -> PosterOf(i)
          [] c = "budget_musd" -> ch.budget_musd
          [] c = "revenue_musd" -> ch.revenue_musd
          [] c = "release_date" -> IF ch.stale THEN Str("soon") ELSE Date(201904)
          [] c = "belongs_to_collection" -> IF ch.stale THEN NA ELSE Str("Saga")
          [] c = "vote_count" -> Num(400)
          [] c = "vote_average" -> Num(8)
          [] c = "runtime" -> Num(120)
          [] c = "profit_musd" -> IF ch.stale THEN Num(7) ELSE NA
          [] c = "roi" -> IF ch.stale THEN Num(3) ELSE NA
          [] c = "release_year" -> IF ch.stale THEN Num(1999) ELSE NA
          [] c = "release_month" -> IF ch.stale THEN Num(12) ELSE NA
          [] c = "runtime_category" -> IF ch.stale THEN Str("Epic") ELSE NA
          [] c = "is_franchise" -> IF ch.stale THEN Bool(TRUE) ELSE NA
          [] OTHER -> IF ch.stale THEN Num(9) ELSE NA]

EnrichAbsentSets ==
    {S \cup T : S \in SUBSET {"revenue_musd", "budget_musd"}, T \in {{}, DerivedColumns}}
    \cup {{"budget_musd", "profit_musd"}, {"runtime_category", "vote_score"},
          {"release_date", "runtime", "belongs_to_collection", "vote_count"}
             \cup DerivedColumns}

EnrichBatch(choices, absent) ==
    DropCols([cols |-> EnrichColumnOrder,
              rows |-> [i \in DOMAIN choices |-> EnrichRow(i, choices[i])]],
             SetToSeq(absent, EnrichColumnOrder))

(***************************************************************************)
(* Aggregation helpers of the analysis module: pandas groupby(...).agg     *)
(* with 'count', 'sum', 'mean', and DataFrame.round(2).                    *)
(***************************************************************************)
\* float infinity with sign sg, the result of x / 0.0 for x # 0
Inf(sg) == [t |-> "inf", n |-> sg, d |-> 1, s |-> "", l |-> <<>>]

\* the present values of a sequence of cells
NonMissing(cells) == SelectSeq(cells, notna)

\* 'count': the number of non-missing values of the group
AggCount(cells) == Num(Len(NonMissing(cells)))

\* 'sum': missing values are skipped, and a group with none sums to 0
AggSum(cells) ==
    LET ps == NonMissing(cells)
        S[i \in 0..Len(ps)] == IF i = 0 THEN Num(0) ELSE AddV(S[i - 1], ps[i])
    IN S[Len(ps)]

\* 'mean': missing values are skipped, and a group with none has mean NaN
AggMean(cells) ==
    IF Len(NonMissing(cells)) = 0 THEN NA
    ELSE DivV(AggSum(cells), Num(Len(NonMissing(cells))))

\* round(2): to the nearest hundredth, a tie going to the even one
Round2(v) ==
    IF v.t # "num" THEN v
    ELSE LET q == (100 * v.n) \div v.d
             r == (100 * v.n) % v.d
             k == IF 2 * r < v.d THEN q
                  ELSE IF 2 * r > v.d THEN q + 1
                  ELSE IF q % 2 = 0 THEN q ELSE q + 1
         IN Ratio(k, 100)

\* float division of two series: x / 0 is +-inf, 0 / 0 is NaN
FloatDiv(a, b) ==
    IF a.t # "num" \/ b.t # "num" THEN NA
    ELSE IF b.n # 0 THEN Ratio(a.n * b.d, a.d * b.n)
    ELSE IF a.n > 0 THEN Inf(1)
    ELSE IF a.n < 0 THEN Inf(-1)
    ELSE NA

\* group keys come out of groupby in sorted order; the names of the model
\* in that order
NameOrder == <<"A", "B", "Saga", "X", "Y", "Z">>

\* row.get(c, np.nan)
RowGet(df, r, c) == IF HasCol(df, c) THEN r[c] ELSE NA

(***************************************************************************)
(* get_top_directors.                                                      *)
(***************************************************************************)
\* str(row['director']).split('|') on the director texts of the model
SplitPipe(s) ==
    CASE s = "X|Y" -> <<"X", "Y">>
      [] s = " X | " -> <<" X ", " ">>
      [] s = "A|B" -> <<"A", "B">>
      [] OTHER -> <<s>>

\* director.strip()
Strip(s) ==
    CASE s = " X " -> "X"
      [] s = " " -> ""
      [] OTHER -> s

\* the director names of one movie: split, stripped, blanks left out
DirectorsOf(v) ==
    LET parts == SplitPipe(v.s)
    IN SelectSeq([i \in DOMAIN parts |-> Strip(parts[i])], NonEmpty)

\* director_records: one record per movie and director, in row order
director_records(df) ==
    LET R[i \in 0..Len(df.rows)] ==
            IF i = 0 THEN <<>>
            ELSE LET r == df.rows[i]
                     ds == DirectorsOf(r["director"])
                 IN R[i - 1] \o
                    [k \in DOMAIN ds |->
                       [director |-> ds[k],
                        revenue_musd |-> RowGet(df, r, "revenue_musd"),
                        budget_musd |-> RowGet(df, r, "budget_musd"),
                        vote_average |-> RowGet(df, r, "vote_average"),
                        profit_musd |-> RowGet(df, r, "profit_musd")]]
    IN R[Len(df.rows)]

DirectorStatsColumns ==
    <<"director", "movie_count", "total_revenue_musd", "mean_revenue_musd",
      "mean_rating", "total_profit_musd">>

\* the values of field c in the records of director name
GroupCells(records, name, c) ==
    LET g == SelectSeq(records, LAMBDA x : x.director = name)
    IN [i \in DOMAIN g |-> g[i][c]]

\* ('revenue_musd', 'count'): the group's non-missing revenues
movie_count(records, name) == AggCount(GroupCells(records, name, "revenue_musd"))

\* director_df.groupby('director').agg({...}).round(2), one row per name
director_stats(records) ==
    LET names == SelectSeq(NameOrder, LAMBDA m : \E i \in DOMAIN records : records[i].director = m)
    IN [cols |-> DirectorStatsColumns,
        rows |-> [i \in DOMAIN names |->
                    [c \in Range(DirectorStatsColumns) |->
                       CASE c = "director" -> Str(names[i])
                         [] c = "movie_count" -> Round2(movie_count(records, names[i]))
                         [] c = "total_revenue_musd" ->
                              Round2(AggSum(GroupCells(records, names[i], "revenue_musd")))
                         [] c = "mean_revenue_musd" ->
                              Round2(AggMean(GroupCells(records, names[i], "revenue_musd")))
                         [] c = "mean_rating" ->
                              Round2(AggMean(GroupCells(records, names[i], "vote_average")))
                         [] OTHER ->
                              Round2(AggSum(GroupCells(records, names[i], "profit_musd")))]]]

\* director_stats[director_stats['movie_count'] >= min_movies]
MinMoviesFilter(stats, min_movies) ==
    FilterRows(stats, [i \in DOMAIN stats.rows |->
                         ~LessV(stats.rows[i]["movie_count"], Num(min_movies))])

\* an outcome of a call: the frame returned, the exception raised ("None"
\* when the call returns) and whether a warning was logged
Outcome(result, raised, warned) == [result |-> result, raised |-> raised, warned |-> warned]

\* faulty variant of missing_column: the lookup of the column fails
missing_column_raises == Outcome(EmptyFrame, "KeyError", FALSE)

\* the required column is not there: logger.warning(...) and
\* return pd.DataFrame()
missing_column == Outcome(EmptyFrame, "None", TRUE)

\* the outcomes get_top_directors can have
get_top_directors(df, n, min_movies) ==
    IF ~HasCol(df, "director") THEN {missing_column}
    ELSE LET df_with_director ==
                 FilterRows(df, [i \in DOMAIN df.rows |-> notna(df.rows[i]["director"])])
             records == director_records(df_with_director)
             stats == MinMoviesFilter(director_stats(records), min_movies)
         IN IF Len(df_with_director.rows) = 0 THEN {Outcome(EmptyFrame, "None", TRUE)}
            ELSE IF Len(records) = 0 THEN {Outcome(EmptyFrame, "KeyError", FALSE)}
            ELSE {Outcome([cols |-> stats.cols,
                           rows |-> head([i \in DOMAIN p |-> stats.rows[p[i]]], n)],
                          "None", FALSE) :
                     p \in SortOrders(stats, "total_revenue_musd", FALSE)}

\* top.sort_values(column, ascending=False).head(n)[columns] for each frame
\* get_top_directors can return; an empty frame is returned as it is
ReRank(tops, column, n, columns) ==
    UNION {IF o.raised # "None" \/ Len(o.result.rows) = 0 THEN {o}
           ELSE {Outcome(SelectCols([cols |-> o.result.cols,
                                     rows |-> head([i \in DOMAIN p |-> o.result.rows[p[i]]], n)],
                                    columns),
                         "None", FALSE) :
                    p \in SortOrders(o.result, column, FALSE)} :
           o \in tops}

\* get_directors_by_movie_count: the 2n directors with the highest total
\* revenue, sorted again by movie_count
get_directors_by_movie_count(df, n) ==
    ReRank(get_top_directors(df, n * 2, 1), "movie_count", n,
           <<"director", "movie_count", "mean_rating">>)

\* get_directors_by_rating: the 2n directors with the highest total revenue
\* among those with min_movies movies, sorted again by mean_rating
get_directors_by_rating(df, n, min_movies) ==
    ReRank(get_top_directors(df, n * 2, min_movies), "mean_rating", n,
           <<"director", "mean_rating", "movie_count", "total_revenue_musd">>)

(***************************************************************************)
(* get_top_franchises and compare_franchise_vs_standalone.                 *)
(***************************************************************************)
FranchiseStatsColumns ==
    <<"franchise", "movie_count", "total_budget_musd", "mean_budget_musd",
      "total_revenue_musd", "mean_revenue_musd", "mean_rating",
      "total_profit_musd", "franchise_roi">>

\* the columns the agg of get_top_franchises reads
FranchiseAggColumns == <<"id", "budget_musd", "revenue_musd", "vote_average", "profit_musd">>

\* the values of column c in the rows of collection name
MemberCells(df, name, c) ==
    LET g == SelectSeq(df.rows, LAMBDA r : r["belongs_to_collection"] = Str(name))
    IN [i \in DOMAIN g |-> g[i][c]]

\* (total_profit_musd / total_budget_musd).round(2), the two totals being
\* the sums already rounded to two decimals
franchise_roi(df, name) ==
    Round2(FloatDiv(Round2(AggSum(MemberCells(df, name, "profit_musd"))),
                    Round2(AggSum(MemberCells(df, name, "budget_musd")))))

\* franchise_df.groupby('belongs_to_collection').agg({...}).round(2) with
\* the franchise_roi column, one row per collection
franchise_stats(df) ==
    LET names == SelectSeq(NameOrder,
                           LAMBDA m : \E i \in DOMAIN df.rows :
                                         df.rows[i]["belongs_to_collection"] = Str(m))
    IN [cols |-> FranchiseStatsColumns,
        rows |-> [i \in DOMAIN names |->
                    [c \in Range(FranchiseStatsColumns) |->
                       CASE c = "franchise" -> Str(names[i])
                         [] c = "movie_count" -> AggCount(MemberCells(df, names[i], "id"))
                         [] c = "total_budget_musd" ->
                              Round2(AggSum(MemberCells(df, names[i], "budget_musd")))
                         [] c = "mean_budget_musd" ->
                              Round2(AggMean(MemberCells(df, names[i], "budget_musd")))
                         [] c = "total_revenue_musd" ->
                              Round2(AggSum(MemberCells(df, names[i], "revenue_musd")))
                         [] c = "mean_revenue_musd" ->
                              Round2(AggMean(MemberCells(df, names[i], "revenue_musd")))
                         [] c = "mean_rating" ->
                              Round2(AggMean(MemberCells(df, names[i], "vote_average")))
                         [] c = "total_profit_musd" ->
                              Round2(AggSum(MemberCells(df, names[i], "profit_musd")))
                         [] OTHER -> franchise_roi(df, names[i])]]]

\* the outcomes get_top_franchises can have
get_top_franchises(df, n) ==
    IF ~HasCol(df, "belongs_to_collection") THEN {missing_column}
    ELSE LET franchise_df ==
                 FilterRows(df, [i \in DOMAIN df.rows |->
                                   notna(df.rows[i]["belongs_to_collection"])])
             stats == franchise_stats(franchise_df)
         IN IF Len(franchise_df.rows) = 0 THEN {Outcome(EmptyFrame, "None", TRUE)}
            ELSE IF \E i \in DOMAIN FranchiseAggColumns : ~HasCol(df, FranchiseAggColumns[i])
            THEN {Outcome(EmptyFrame, "KeyError", FALSE)}
            ELSE {Outcome([cols |-> stats.cols,
                           rows |-> head([i \in DOMAIN p |-> stats.rows[p[i]]], n)],
                          "None", FALSE) :
                     p \in SortOrders(stats, "total_revenue_musd", FALSE)}

\* series.median(): the middle present value, or the mean of the two middle
AggMedian(cells) ==
    LET ps == SortSeq(NonMissing(cells), LAMBDA a, b : LessV(a, b))
        m == Len(ps)
    IN IF m = 0 THEN NA
       ELSE IF m % 2 = 1 THEN ps[(m + 1) \div 2]
       ELSE DivV(AddV(ps[m \div 2], ps[m \div 2 + 1]), Num(2))

ComparisonColumns == <<"metric", "Franchise", "Standalone">>

\* the metric rows of the comparison, in the order they are computed
ComparisonMetrics ==
    <<[name |-> "Mean Revenue ($M)", col |-> "revenue_musd"],
      [name |-> "Median ROI", col |-> "roi"],
      [name |-> "Mean Budget ($M)", col |-> "budget_musd"],
      [name |-> "Mean Popularity", col |-> "popularity"],
      [name |-> "Mean Rating", col |-> "vote_average"],
      [name |-> "Movie Count", col |-> ""]>>

\* one entry of the metrics dict for a group of rows
MetricOf(m, rows) ==
    LET cells == [i \in DOMAIN rows |-> rows[i][m.col]]
    IN IF m.name = "Movie Count" THEN Num(Len(rows))
       ELSE IF m.name = "Median ROI" THEN Round2(AggMedian(cells))
       ELSE Round2(AggMean(cells))

\* the outcome of compare_franchise_vs_standalone
compare_franchise_vs_standalone(df) ==
    IF ~HasCol(df, "is_franchise") /\ ~HasCol(df, "belongs_to_collection")
    THEN missing_column
    ELSE LET franchise_mask ==
                 IF HasCol(df, "is_franchise")
                 THEN [i \in DOMAIN df.rows |-> df.rows[i]["is_franchise"] = Bool(TRUE)]
                 ELSE [i \in DOMAIN df.rows |-> notna(df.rows[i]["belongs_to_collection"])]
             franchise_movies == FilterRows(df, franchise_mask)
             standalone_movies ==
                 FilterRows(df, [i \in DOMAIN df.rows |-> ~franchise_mask[i]])
             metrics == SelectSeq(ComparisonMetrics,
                                  LAMBDA m : m.col = "" \/ HasCol(df, m.col))
         IN Outcome([cols |-> ComparisonColumns,
                     rows |-> [i \in DOMAIN metrics |->
                                 [c \in Range(ComparisonColumns) |->
                                    CASE c = "metric" -> Str(metrics[i].name)
                                      [] c = "Franchise" ->
                                           MetricOf(metrics[i], franchise_movies.rows)
                                      [] OTHER ->
                                           MetricOf(metrics[i], standalone_movies.rows)]]],
                    "None", FALSE)

(***************************************************************************)
(* Datasets handed to the analysis functions.  A dataset varies either     *)
(* the director and revenue of its movies or their collection, budget and  *)
(* revenue; profit_musd, roi and is_franchise are what enrich_movies       *)
(* derives from them.                                                      *)
(***************************************************************************)
MaxDirectorRows == 3
MaxFranchiseRows == 2

AnalysisColumnOrder ==
    <<"id", "title", "director", "belongs_to_collection", "is_franchise",
      "budget_musd", "revenue_musd", "profit_musd", "roi", "vote_average",
      "popularity">>

DirectorChoices ==
    [director : {NA, Str("X"), Str("X|Y"), Str("Z"), Str(" X | ")},
     revenue_musd : {NA, Num(300)},
     budget_musd : {Num(100)}, collection : {Str("Saga")}]

FranchiseChoices ==
    [director : {Str("X")},
     revenue_musd : {NA, Num(300)},
     budget_musd : {NA, Frac(1, 250), Num(100), Num(200)},
     collection : {NA, Str("Saga")}]

AnalysisRow(i, ch) ==
    LET profit == SubV(ch.revenue_musd, ch.budget_musd)
    IN [c \in Range(AnalysisColumnOrder) |->
          CASE c = "id" -> Num(i)
            [] c = "title" -> TitleOf(i)
            [] c = "director" -> ch.director
            [] c = "belongs_to_collection" -> ch.collection
            [] c = "is_franchise" -> Bool(notna(ch.collection))
            [] c = "budget_musd" -> ch.budget_musd
            [] c = "revenue_musd" -> ch.revenue_musd
            [] c = "profit_musd" -> profit
            [] c = "roi" -> RoiOf([profit_musd |-> profit, budget_musd |-> ch.budget_musd])
            [] c = "vote_average" -> Num(5 + i)
            [] OTHER -> Num(7)]

AnalysisFrame(choices, absent) ==
    DropCols([cols |-> AnalysisColumnOrder,
              rows |-> [i \in DOMAIN choices |-> AnalysisRow(i, choices[i])]],
             SetToSeq(absent, AnalysisColumnOrder))

(***************************************************************************)
(* The leaderboard functions of kpi_rankings and get_all_rankings.         *)
(***************************************************************************)
MIN_BUDGET_FOR_ROI == 10000000
MIN_VOTES_FOR_RATING == 10

\* get_top_movies with display_columns given
get_top_movies_display(df, column, n, ascending, has_filter, mask, display_columns) ==
    LET filtered_df == RankDropna(RankFilter(df, has_filter, mask), column)
        available_columns == SelectSeq(display_columns, LAMBDA c : HasCol(filtered_df, c))
    IN {SelectCols([cols |-> filtered_df.cols,
                    rows |-> head([i \in DOMAIN p |-> filtered_df.rows[p[i]]], n)],
                   available_columns) :
           p \in SortOrders(filtered_df, column, ascending)}

\* dropna(subset=[column]) raises KeyError when the column is not there
get_top_movies_raises(df, column) == IF HasCol(df, column) THEN "None" ELSE "KeyError"

\* the ten leaderboards in the order get_all_rankings builds them: the
\* ranking column, the direction, the column and threshold of the
\* pre-filter ("" when there is none) and the display columns
Leaderboards ==
    <<[name |-> "highest_revenue", column |-> "revenue_musd", ascending |-> FALSE,
       filter |-> "", least |-> 0,
       display |-> <<"title", "revenue_musd", "release_year">>],
      [name |-> "highest_budget", column |-> "budget_musd", ascending |-> FALSE,
       filter |-> "", least |-> 0,
       display |-> <<"title", "budget_musd", "release_year">>],
      [name |-> "highest_profit", column |-> "profit_musd", ascending |-> FALSE,
       filter |-> "", least |-> 0,
       display |-> <<"title", "profit_musd", "budget_musd", "revenue_musd">>],
      [name |-> "lowest_profit", column |-> "profit_musd", ascending |-> TRUE,
       filter |-> "", least |-> 0,
       display |-> <<"title", "profit_musd", "budget_musd", "revenue_musd">>],
      [name |-> "highest_roi", column |-> "roi", ascending |-> FALSE,
       filter |-> "budget_musd", least |-> MIN_BUDGET_FOR_ROI \div Million,
       display |-> <<"title", "roi", "budget_musd", "revenue_musd">>],
      [name |-> "lowest_roi", column |-> "roi", ascending |-> TRUE,
       filter |-> "budget_musd", least |-> MIN_BUDGET_FOR_ROI \div Million,
       display |-> <<"title", "roi", "budget_musd", "revenue_musd">>],
      [name |-> "most_voted", column |-> "vote_count", ascending |-> FALSE,
       filter |-> "", least |-> 0,
       display |-> <<"title", "vote_count", "vote_average">>],
      [name |-> "highest_rated", column |-> "vote_average", ascending |-> FALSE,
       filter |-> "vote_count", least |-> MIN_VOTES_FOR_RATING,
       display |-> <<"title", "vote_average", "vote_count">>],
      [name |-> "lowest_rated", column |-> "vote_average", ascending |-> TRUE,
       filter |-> "vote_count", least |-> MIN_VOTES_FOR_RATING,
       display |-> <<"title", "vote_average", "vote_count">>],
      [name |-> "most_popular", column |-> "popularity", ascending |-> FALSE,
       filter |-> "", least |-> 0,
       display |-> <<"title", "popularity", "vote_average">>]>>

\* the outcomes of one leaderboard function: df[filter column] raises
\* KeyError when that column is not there, then get_top_movies runs
leaderboard(df, b, n) ==
    IF b.filter # "" /\ ~HasCol(df, b.filter) THEN {Outcome(EmptyFrame, "KeyError", FALSE)}
    ELSE IF get_top_movies_raises(df, b.column) # "None"
    THEN {Outcome(EmptyFrame, get_top_movies_raises(df, b.column), FALSE)}
    ELSE {Outcome(f, "None", FALSE) :
            f \in get_top_movies_display(
                     df, b.column, n, b.ascending, b.filter # "",
                     [i \in DOMAIN df.rows |->
                        b.filter # "" /\ notna(df.rows[i][b.filter])
                        /\ ~LessV(df.rows[i][b.filter], Num(b.least))],
                     b.display)}

\* the outcomes of get_all_rankings: the tables in order, or the exception
\* of the first leaderboard that raises
get_all_rankings(df, n) ==
    LET A[k \in 0..Len(Leaderboards)] ==
            IF k = 0 THEN {[rankings |-> <<>>, raised |-> "None"]}
            ELSE {IF a.raised # "None" THEN a
                  ELSE IF o.raised # "None" THEN [rankings |-> <<>>, raised |-> o.raised]
                  ELSE [rankings |-> Append(a.rankings, o.result), raised |-> "None"] :
                     a \in A[k - 1], o \in leaderboard(df, Leaderboards[k], n)}
    IN A[Len(Leaderboards)]

\* datasets for the leaderboards
MaxBoardRows == 2

BoardColumnOrder ==
    <<"title", "budget_musd", "revenue_musd", "profit_musd", "roi", "vote_count",
      "vote_average", "popularity", "release_year">>

BoardChoices == [budget_musd : {NA, Num(5), Num(100)}, vote_count : {NA, Num(5), Num(400)}]

BoardRow(i, ch) ==
    LET profit == SubV(Num(300 * i), ch.budget_musd)
    IN [c \in Range(BoardColumnOrder) |->
          CASE c = "title" -> TitleOf(i)
            [] c = "budget_musd" -> ch.budget_musd
            [] c = "revenue_musd" -> Num(300 * i)
            [] c = "profit_musd" -> profit
            [] c = "roi" -> RoiOf([profit_musd |-> profit, budget_musd |-> ch.budget_musd])
            [] c = "vote_count" -> ch.vote_count
            [] c = "vote_average" -> Num(5 + i)
            [] c = "popularity" -> Num(7 * i)
            [] OTHER -> Num(2000 + i)]

BoardFrame(choices, absent) ==
    DropCols([cols |-> BoardColumnOrder,
              rows |-> [i \in DOMAIN choices |-> BoardRow(i, choices[i])]],
             SetToSeq(absent, BoardColumnOrder))

(***************************************************************************)
(* run_with_retry (src/orchestrator/retry.py).  The call is followed step  *)
(* by step: state is "start" at the head of the for loop, "try" while the  *)
(* operation runs, "returned" or "raised" when the call is over.  events   *)
(* records what happened in order: "ok" and "fail" for the operation's     *)
(* invocations, "wait" for each time.sleep.                                *)
(***************************************************************************)
MaxRetries == 4

\* what the operation can raise and be caught by `except Exception`
Exceptions == {"ConnectionError", "ValueError"}

\* what the operation can return
Results == {"batch A", "batch B"}

NoRetry ==
    [state |-> "idle", retries |-> 0, delay |-> 0, attempt |-> 0, calls |-> 0,
     events |-> <<>>, waits |-> <<>>, fails |-> <<>>, last_exception |-> "None",
     func_returned |-> "None", result |-> "None", raised |-> "None"]

\* faulty variant of wait_time: the same wait every time
wait_time_constant(delay, attempt) == delay

\* wait_time = delay * (2 ** (attempt - 1))
wait_time(delay, attempt) == delay * (2 ^ (attempt - 1))

\* faulty variant of raise_exhausted: the first failure is re-raised
raise_exhausted_first(r) == IF r.fails = <<>> THEN "TypeError" ELSE r.fails[1]

\* `raise last_exception` after the loop; raising None is a TypeError
raise_exhausted(r) == IF r.last_exception = "None" THEN "TypeError" ELSE r.last_exception

\* faulty variant of loop_continues: the body runs once before the bound is looked at
loop_continues_do_while(r) == r.attempt = 0 \/ r.attempt + 1 <= r.retries

\* faulty variant of loop_continues: one attempt more than asked
loop_continues_extra(r) == r.attempt + 1 <= r.retries + 1

\* for attempt in range(1, retries + 1): there is a next attempt
loop_continues(r) == r.attempt + 1 <= r.retries

\* result = func(); return result
attempt_returned(r, v) ==
    [r EXCEPT !.calls = @ + 1, !.events = Append(@, "ok"),
              !.func_returned = v, !.result = v, !.state = "returned"]

\* func() raises e: the except block records it and sleeps when another
\* attempt follows
attempt_failed(r, e) ==
    [r EXCEPT !.calls = @ + 1,
              !.last_exception = e,
              !.fails = Append(@, e),
              !.events = IF r.attempt < r.retries
                         THEN @ \o <<"fail", "wait">> ELSE Append(@, "fail"),
              !.waits = IF r.attempt < r.retries
                        THEN Append(@, wait_time(r.delay, r.attempt))
                        ELSE @,
              !.state = "start"]

\* nothing else of the analysis or parser state
NoAnalysis == [fn |-> "", n |-> 0, min_movies |-> 0, result |-> EmptyFrame,
               rankings |-> <<>>, raised |-> "None", warned |-> FALSE]

NoParse == [fn |-> "", value |-> NA, result |-> NA, raised |-> "None"]

\* the state of a run of main: the statement it is at, the loop of
\* fetch_movies (position i in the identifiers, movies_data, failed_ids,
\* and how often each identifier has been requested), the statements
\* executed so far and the files written
NoRun == [stage |-> "idle", fetch |-> "idle", i |-> 0, movies_data |-> <<>>,
          failed_ids |-> <<>>, requests |-> <<>>, log |-> <<>>, files |-> {}]

(***************************************************************************)
(* What a call leaves in the dataset object the caller passed.  A local    *)
(* name is bound to an object; `shared` says that it is the caller's       *)
(* object, so that a column assignment through the name writes to it.      *)
(***************************************************************************)
\* faulty variant of copy: the name stays bound to the caller's object
copy_shared(df) == [frame |-> df, shared |-> TRUE]

\* df.copy(): a new object with the same rows, columns and values
copy(df) == [frame |-> df, shared |-> FALSE]

\* clean_movies: df = df.copy(), then df = df.drop(columns=...) binds the
\* name to the new object drop returns, before the first column assignment
clean_movies_caller(df) ==
    LET copied == copy(df)
        dropped == [frame |-> CleanStep1(copied.frame), shared |-> FALSE]
    IN IF dropped.shared THEN clean_movies(df) ELSE df

\* enrich_movies: df = df.copy(), then every derived column is assigned
\* through that name
enrich_movies_caller(df) ==
    LET copied == copy(df)
    IN IF copied.shared THEN enrich_movies(df) ELSE df

\* get_top_movies: filtered_df is df[filter_condition].copy() or df.copy();
\* dropna, sort_values, head and the column selection return new objects
\* and nothing is assigned through df
get_top_movies_caller(df) == df

\* get_top_directors: df_with_director is df[mask].copy(); the records are
\* built from its rows and aggregated in a frame of their own
get_top_directors_caller(df) == df

\* get_top_franchises: franchise_df is df[mask].copy() and the statistics
\* are a frame of their own
get_top_franchises_caller(df) == df

(***************************************************************************)
(* The pipeline run: clean, enrich, and a second cleaning of the cleaned   *)
(* batch.                                                                  *)
(***************************************************************************)
VARIABLES raw, cleaned, enriched, recleaned, rank_args, ranking, pc,
          analysis, parse, retry, run

vars == <<raw, cleaned, enriched, recleaned, rank_args, ranking, pc,
          analysis, parse, retry, run>>

\* nothing analysed, parsed or retried yet, and no pipeline run under way
Idle == analysis = NoAnalysis /\ parse = NoParse /\ retry = NoRetry /\ run = NoRun

InitRaw ==
    \E k \in 0..MaxRows :
        \/ \E chs \in [1..k -> IdentityChoices] :
             \E absent \in {{}, {"id"}, {"title"}, {"status"}} :
                raw = RawBatch(chs, absent)
        \/ \E chs \in [1..k -> MoneyChoices] :
             \E absent \in {{}, {"revenue"}} : raw = RawBatch(chs, absent)
        \/ \E chs \in [1..k -> NestedChoices] : raw = RawBatch(chs, {})

Init ==
    /\ InitRaw
    /\ cleaned = EmptyFrame
    /\ enriched = EmptyFrame
    /\ recleaned = EmptyFrame
    /\ rank_args = NoArgs
    /\ ranking = EmptyFrame
    /\ pc = "raw"
    /\ Idle

Clean ==
    /\ pc = "raw"
    /\ cleaned' = clean_movies(raw)
    /\ raw' = clean_movies_caller(raw)
    /\ pc' = "cleaned"
    /\ UNCHANGED <<enriched, recleaned, rank_args, ranking, analysis, parse, retry, run>>

Enrich ==
    /\ pc = "cleaned"
    /\ enriched' = enrich_movies(cleaned)
    /\ cleaned' = enrich_movies_caller(cleaned)
    /\ pc' = "enriched"
    /\ UNCHANGED <<raw, recleaned, rank_args, ranking, analysis, parse, retry, run>>

CleanAgain ==
    /\ pc = "enriched"
    /\ recleaned' = clean_movies(cleaned)
    /\ cleaned' = clean_movies_caller(cleaned)
    /\ pc' = "recleaned"
    /\ UNCHANGED <<raw, enriched, rank_args, ranking, analysis, parse, retry, run>>

Next == Clean \/ Enrich \/ CleanAgain

Spec == Init /\ [][Next]_vars

(***************************************************************************)
(* enrich_movies called on a batch of its own.                             *)
(***************************************************************************)
InitEnrich ==
    /\ \E k \in 0..MaxEnrichRows :
          \E chs \in [1..k -> EnrichChoices] :
             \E absent \in EnrichAbsentSets : cleaned = EnrichBatch(chs, absent)
    /\ raw = EmptyFrame
    /\ enriched = EmptyFrame
    /\ recleaned = EmptyFrame
    /\ rank_args = NoArgs
    /\ ranking = EmptyFrame
    /\ pc = "cleaned"
    /\ Idle

NextEnrich == Enrich

SpecEnrich == InitEnrich /\ [][NextEnrich]_vars

(***************************************************************************)
(* get_top_movies called on a dataset, with every choice of n, direction   *)
(* and filter mask.                                                        *)
(***************************************************************************)
InitRank ==
    /\ \E k \in 0..MaxRankRows : \E ms \in [1..k -> Metrics] : enriched = RankFrame(ms)
    /\ raw = EmptyFrame
    /\ cleaned = EmptyFrame
    /\ recleaned = EmptyFrame
    /\ rank_args = NoArgs
    /\ ranking = EmptyFrame
    /\ pc = "enriched"
    /\ Idle

Rank ==
    /\ pc = "enriched"
    /\ \E n \in 0..MaxN, ascending \in BOOLEAN, has_filter \in BOOLEAN :
         \E mask \in IF has_filter THEN [DOMAIN enriched.rows -> BOOLEAN] ELSE {<<>>} :
            /\ rank_args' = [column |-> "revenue_musd", n |-> n, ascending |-> ascending,
                             has_filter |-> has_filter, mask |-> mask]
            /\ ranking' \in get_top_movies(enriched, "revenue_musd", n, ascending,
                                           has_filter, mask)
            /\ enriched' = get_top_movies_caller(enriched)
    /\ pc' = "ranked"
    /\ UNCHANGED <<raw, cleaned, recleaned, analysis, parse, retry, run>>

NextRank == Rank

SpecRank == InitRank /\ [][NextRank]_vars

(***************************************************************************)
(* run_with_retry called with every choice of retries and delay, on an     *)
(* operation that may return, raise an Exception, or raise something that  *)
(* `except Exception` does not catch, at each invocation.                  *)
(***************************************************************************)
InitRetry ==
    /\ \E retries \in 0..MaxRetries, delay \in {1, 2, 3} :
          retry = [NoRetry EXCEPT !.state = "start", !.retries = retries, !.delay = delay]
    /\ raw = EmptyFrame
    /\ cleaned = EmptyFrame
    /\ enriched = EmptyFrame
    /\ recleaned = EmptyFrame
    /\ rank_args = NoArgs
    /\ ranking = EmptyFrame
    /\ pc = "retry"
    /\ analysis = NoAnalysis
    /\ parse = NoParse
    /\ run = NoRun

\* the for statement takes the next attempt number
RetryLoop ==
    /\ retry.state = "start"
    /\ loop_continues(retry)
    /\ retry' = [retry EXCEPT !.attempt = @ + 1, !.state = "try"]
    /\ UNCHANGED <<raw, cleaned, enriched, recleaned, rank_args, ranking, pc, analysis, parse, run>>

\* result = func(); return result
RetrySucceed ==
    /\ retry.state = "try"
    /\ \E v \in Results : retry' = attempt_returned(retry, v)
    /\ UNCHANGED <<raw, cleaned, enriched, recleaned, rank_args, ranking, pc, analysis, parse, run>>

\* func() raises e: the except block records it and sleeps when another
\* attempt follows
RetryFail ==
    /\ retry.state = "try"
    /\ \E e \in Exceptions : retry' = attempt_failed(retry, e)
    /\ UNCHANGED <<raw, cleaned, enriched, recleaned, rank_args, ranking, pc, analysis, parse, run>>

\* func() raises something that is no Exception (KeyboardInterrupt): it is
\* not caught and leaves run_with_retry at once
RetryAbort ==
    /\ retry.state = "try"
    /\ retry' = [retry EXCEPT !.calls = @ + 1, !.events = Append(@, "abort"),
                               !.raised = "KeyboardInterrupt", !.state = "raised"]
    /\ UNCHANGED <<raw, cleaned, enriched, recleaned, rank_args, ranking, pc, analysis, parse, run>>

\* the loop is over without a return: raise last_exception
RetryExhausted ==
    /\ retry.state = "start"
    /\ ~loop_continues(retry)
    /\ retry' = [retry EXCEPT !.raised = raise_exhausted(retry), !.state = "raised"]
    /\ UNCHANGED <<raw, cleaned, enriched, recleaned, rank_args, ranking, pc, analysis, parse, run>>

NextRetry == RetryLoop \/ RetrySucceed \/ RetryFail \/ RetryAbort \/ RetryExhausted

SpecRetry == InitRetry /\ [][NextRetry]_vars

(***************************************************************************)
(* The director and franchise analysis called on a dataset.                *)
(***************************************************************************)
InitAnalysis ==
    /\ \/ \E k \in 0..MaxDirectorRows :
            \E chs \in [1..k -> DirectorChoices] :
               \E absent \in {{}, {"director"}, {"revenue_musd"}} :
                  enriched = AnalysisFrame(chs, absent)
       \/ \E k \in 0..MaxFranchiseRows :
            \E chs \in [1..k -> FranchiseChoices] :
               \E absent \in {{}, {"belongs_to_collection"},
                               {"belongs_to_collection", "is_franchise"},
                               {"profit_musd", "roi"}} :
                  enriched = AnalysisFrame(chs, absent)
    /\ raw = EmptyFrame
    /\ cleaned = EmptyFrame
    /\ recleaned = EmptyFrame
    /\ rank_args = NoArgs
    /\ ranking = EmptyFrame
    /\ pc = "enriched"
    /\ Idle

TopDirectors ==
    /\ pc = "enriched"
    /\ \E n \in {1, 10}, min_movies \in {1, 2} :
          \E o \in get_top_directors(enriched, n, min_movies) :
             analysis' = [fn |-> "get_top_directors", n |-> n, min_movies |-> min_movies,
                          result |-> o.result, rankings |-> <<>>,
                          raised |-> o.raised, warned |-> o.warned]
    /\ enriched' = get_top_directors_caller(enriched)
    /\ pc' = "analysed"
    /\ UNCHANGED <<raw, cleaned, recleaned, rank_args, ranking, parse, retry, run>>

TopFranchises ==
    /\ pc = "enriched"
    /\ \E n \in {1, 10} :
          \E o \in get_top_franchises(enriched, n) :
             analysis' = [fn |-> "get_top_franchises", n |-> n, min_movies |-> 0,
                          result |-> o.result, rankings |-> <<>>,
                          raised |-> o.raised, warned |-> o.warned]
    /\ enriched' = get_top_franchises_caller(enriched)
    /\ pc' = "analysed"
    /\ UNCHANGED <<raw, cleaned, recleaned, rank_args, ranking, parse, retry, run>>

CompareFranchise ==
    /\ pc = "enriched"
    /\ LET o == compare_franchise_vs_standalone(enriched)
       IN analysis' = [fn |-> "compare_franchise_vs_standalone", n |-> 0, min_movies |-> 0,
                       result |-> o.result, rankings |-> <<>>,
                       raised |-> o.raised, warned |-> o.warned]
    /\ pc' = "analysed"
    /\ UNCHANGED <<raw, cleaned, enriched, recleaned, rank_args, ranking, parse, retry, run>>

NextAnalysis == TopDirectors \/ TopFranchises \/ CompareFranchise

SpecAnalysis == InitAnalysis /\ [][NextAnalysis]_vars

(***************************************************************************)
(* The leaderboards called on a dataset that may lack a column.            *)
(***************************************************************************)
InitBoards ==
    /\ \E k \in 0..MaxBoardRows :
          \E chs \in [1..k -> BoardChoices] :
             \E absent \in {{}} \cup {{c} : c \in Range(BoardColumnOrder)} :
                enriched = BoardFrame(chs, absent)
    /\ raw = EmptyFrame
    /\ cleaned = EmptyFrame
    /\ recleaned = EmptyFrame
    /\ rank_args = NoArgs
    /\ ranking = EmptyFrame
    /\ pc = "enriched"
    /\ Idle

\* one of get_highest_revenue ... get_most_popular
Leaderboard ==
    /\ pc = "enriched"
    /\ \E k \in DOMAIN Leaderboards, n \in {1, 5} :
          \E o \in leaderboard(enriched, Leaderboards[k], n) :
             analysis' = [fn |-> Leaderboards[k].name, n |-> n, min_movies |-> 0,
                          result |-> o.result, rankings |-> <<>>,
                          raised |-> o.raised, warned |-> o.warned]
    /\ pc' = "analysed"
    /\ UNCHANGED <<raw, cleaned, enriched, recleaned, rank_args, ranking, parse, retry, run>>

AllRankings ==
    /\ pc = "enriched"
    /\ \E o \in get_all_rankings(enriched, 5) :
          analysis' = [fn |-> "get_all_rankings", n |-> 5, min_movies |-> 0,
                       result |-> EmptyFrame, rankings |-> o.rankings,
                       raised |-> o.raised, warned |-> FALSE]
    /\ pc' = "analysed"
    /\ UNCHANGED <<raw, cleaned, enriched, recleaned, rank_args, ranking, parse, retry, run>>

NextBoards == Leaderboard \/ AllRankings

SpecBoards == InitBoards /\ [][NextBoards]_vars

(***************************************************************************)
(* The nested-field parsers called on a value of any shape.                *)
(***************************************************************************)
InitParse ==
    /\ parse = NoParse
    /\ raw = EmptyFrame
    /\ cleaned = EmptyFrame
    /\ enriched = EmptyFrame
    /\ recleaned = EmptyFrame
    /\ rank_args = NoArgs
    /\ ranking = EmptyFrame
    /\ pc = "parse"
    /\ analysis = NoAnalysis
    /\ retry = NoRetry
    /\ run = NoRun

Parse ==
    /\ pc = "parse"
    /\ \E fn \in ParserNames, value \in ParseInputs : parse' = ParserCall(fn, value)
    /\ pc' = "parsed"
    /\ UNCHANGED <<raw, cleaned, enriched, recleaned, rank_args, ranking, analysis, retry, run>>

NextParse == Parse

SpecParse == InitParse /\ [][NextParse]_vars


(***************************************************************************)
(* Following a record through the stages.                                  *)
(***************************************************************************)
\* the position in the raw batch of the record that row r comes from
SrcIndex(r) ==
    CHOOSE i \in DOMAIN raw.rows : raw.rows[i]["poster_path"] = r["poster_path"]

Src(r) == raw.rows[SrcIndex(r)]

\* the row of frame df that comes from the same record as r
Same(df, r) ==
    df.rows[CHOOSE i \in DOMAIN df.rows : df.rows[i]["poster_path"] = r["poster_path"]]

Cleaned == pc \in {"cleaned", "enriched", "recleaned"}
Enriched == pc \in {"enriched", "recleaned"}

(***************************************************************************)
(* C1: after clean_movies on a batch with an id column, the ids of the     *)
(* output rows are pairwise distinct, and a retained row is the first      *)
(* occurrence of its id in the input: no earlier input row has that id.    *)
(***************************************************************************)
C1_UniqueIds ==
    (Cleaned /\ HasCol(raw, "id")) =>
        /\ \A i, j \in DOMAIN cleaned.rows :
              i # j => cleaned.rows[i]["id"] # cleaned.rows[j]["id"]
        /\ \A i \in DOMAIN cleaned.rows :
              \A j \in 1..(SrcIndex(cleaned.rows[i]) - 1) :
                 raw.rows[j]["id"] # Src(cleaned.rows[i])["id"]

\* a batch with a repeated id whose first occurrence is retained
C1_Witness ==
    /\ pc = "cleaned" /\ HasCol(raw, "id")
    /\ \E i, j \in DOMAIN raw.rows :
          /\ i < j /\ raw.rows[i]["id"] = raw.rows[j]["id"]
          /\ \E k \in DOMAIN cleaned.rows : SrcIndex(cleaned.rows[k]) = i

(***************************************************************************)
(* C2: clean_movies is idempotent: cleaning the cleaned batch again gives  *)
(* the same batch (same rows, same values, same column order).             *)
(***************************************************************************)
C2_Idempotent == pc = "recleaned" => recleaned = cleaned

(***************************************************************************)
(* C4 as stated: after clean_movies no row holds a zero or negative value  *)
(* in budget, revenue, runtime, budget_musd or revenue_musd.               *)
(***************************************************************************)
PositiveColumns == {"budget", "revenue", "runtime", "budget_musd", "revenue_musd"}

C4_NoNonPositive ==
    Cleaned =>
        \A i \in DOMAIN cleaned.rows :
           \A c \in PositiveColumns \cap Range(cleaned.cols) :
              notna(cleaned.rows[i][c]) => Positive(cleaned.rows[i][c])

(***************************************************************************)
(* C4 amended: after clean_movies no row holds a zero in budget, revenue,  *)
(* runtime, budget_musd or revenue_musd (a stored zero has become          *)
(* missing); a negative budget, revenue or runtime is kept as it is.       *)
(***************************************************************************)
C4_NoZero ==
    Cleaned =>
        \A i \in DOMAIN cleaned.rows :
           /\ \A c \in PositiveColumns \cap Range(cleaned.cols) :
                 isna(cleaned.rows[i][c])
                 \/ (cleaned.rows[i][c].t = "num" /\ cleaned.rows[i][c].n # 0)
           /\ \A c \in {"budget", "revenue", "runtime"} \cap Range(raw.cols) :
                 LET v == Src(cleaned.rows[i])[c]
                 IN /\ (v.t = "num" /\ v.n = 0) => isna(cleaned.rows[i][c])
                    /\ (v.t = "num" /\ v.n < 0) => cleaned.rows[i][c] = v

\* a surviving record whose raw budget is 0, and one whose budget is negative
C4_Witness ==
    /\ pc = "cleaned"
    /\ \E i \in DOMAIN cleaned.rows :
          /\ Src(cleaned.rows[i])["budget"] = Num(0)
          /\ isna(cleaned.rows[i]["budget_musd"])
    /\ \E i \in DOMAIN cleaned.rows : Src(cleaned.rows[i])["budget"].n < 0

(***************************************************************************)
(* C5 (scenario A): a record that survives cleaning with raw budget 0 and  *)
(* a positive raw revenue has budget and budget_musd missing and           *)
(* revenue_musd present after clean_movies, and profit_musd and roi        *)
(* missing after enrich_movies.                                            *)
(***************************************************************************)
ScenarioA(r) ==
    /\ HasCol(raw, "budget") /\ HasCol(raw, "revenue")
    /\ Src(r)["budget"] = Num(0)
    /\ Positive(Src(r)["revenue"])

C5_ScenarioA ==
    Enriched =>
        \A i \in DOMAIN cleaned.rows :
           ScenarioA(cleaned.rows[i]) =>
              /\ isna(cleaned.rows[i]["budget"])
              /\ isna(cleaned.rows[i]["budget_musd"])
              /\ notna(cleaned.rows[i]["revenue_musd"])
              /\ HasCol(enriched, "profit_musd") /\ HasCol(enriched, "roi")
              /\ isna(Same(enriched, cleaned.rows[i])["profit_musd"])
              /\ isna(Same(enriched, cleaned.rows[i])["roi"])

C5_Witness ==
    /\ pc = "enriched"
    /\ \E i \in DOMAIN cleaned.rows : ScenarioA(cleaned.rows[i])

(***************************************************************************)
(* C7: on a batch with a status column, clean_movies keeps only records    *)
(* whose status is exactly 'Released', and its output has no status        *)
(* column.                                                                 *)
(***************************************************************************)
C7_ReleasedOnly ==
    (Cleaned /\ HasCol(raw, "status")) =>
        /\ ~HasCol(cleaned, "status")
        /\ \A i \in DOMAIN cleaned.rows :
              Src(cleaned.rows[i])["status"] = Str("Released")

\* a batch with a released record that is kept and another status that is not
C7_Witness ==
    /\ pc = "cleaned" /\ HasCol(raw, "status")
    /\ Len(cleaned.rows) > 0
    /\ \E i \in DOMAIN raw.rows : raw.rows[i]["status"] = Str("Planned")
    /\ Len(cleaned.rows) < Len(raw.rows)


(***************************************************************************)
(* Ranking: the rows of the dataset behind a result.                       *)
(***************************************************************************)
\* the position in the ranked dataset of the movie of result row r
RankSrc(r) == CHOOSE i \in DOMAIN enriched.rows : enriched.rows[i]["title"] = r["title"]

\* row i passes the predicate and has a present metric
Qualifies(i) ==
    /\ rank_args.has_filter => rank_args.mask[i]
    /\ notna(enriched.rows[i][rank_args.column])

Metric(r) == r[rank_args.column]

Min(a, b) == IF a < b THEN a ELSE b

(***************************************************************************)
(* C8: in the result of get_top_movies, rows with equal metric values      *)
(* appear in their original relative order, in both directions.            *)
(***************************************************************************)
C8_StableTies ==
    pc = "ranked" =>
        \A i, j \in DOMAIN ranking.rows :
           (i < j /\ Metric(ranking.rows[i]) = Metric(ranking.rows[j]))
              => RankSrc(ranking.rows[i]) < RankSrc(ranking.rows[j])

(***************************************************************************)
(* C9: every row returned by get_top_movies has a present metric and       *)
(* passes the filter, also when fewer than n rows qualify.                 *)
(***************************************************************************)
C9_OnlyQualifying ==
    pc = "ranked" =>
        \A i \in DOMAIN ranking.rows :
           /\ notna(Metric(ranking.rows[i]))
           /\ Qualifies(RankSrc(ranking.rows[i]))
           /\ Metric(ranking.rows[i]) = Metric(enriched.rows[RankSrc(ranking.rows[i])])

\* fewer than n rows qualify: one is filtered out, one has no metric
C9_Witness ==
    /\ pc = "ranked" /\ rank_args.has_filter
    /\ \E i \in DOMAIN enriched.rows : ~rank_args.mask[i] /\ notna(Metric(enriched.rows[i]))
    /\ \E i \in DOMAIN enriched.rows : rank_args.mask[i] /\ isna(Metric(enriched.rows[i]))
    /\ Len(ranking.rows) > 0
    /\ Len(ranking.rows) < rank_args.n

(***************************************************************************)
(* C10: for n >= 0 get_top_movies returns exactly min(n, q) rows, q the    *)
(* number of qualifying rows; they are distinct qualifying rows, ordered   *)
(* by the metric in the requested direction, and no qualifying row left    *)
(* out ranks strictly ahead of a returned row.                             *)
(***************************************************************************)
C10_TopN ==
    pc = "ranked" =>
        LET q == Cardinality({i \in DOMAIN enriched.rows : Qualifies(i)})
            got == {RankSrc(ranking.rows[i]) : i \in DOMAIN ranking.rows}
        IN /\ Len(ranking.rows) = Min(rank_args.n, q)
           /\ Cardinality(got) = Len(ranking.rows)
           /\ \A i \in got : Qualifies(i)
           /\ \A i, j \in DOMAIN ranking.rows :
                 i < j => InOrder(Metric(ranking.rows[i]), Metric(ranking.rows[j]),
                                  rank_args.ascending)
           /\ \A i \in DOMAIN enriched.rows :
                 (Qualifies(i) /\ i \notin got) =>
                    \A j \in DOMAIN ranking.rows :
                       InOrder(Metric(ranking.rows[j]), Metric(enriched.rows[i]),
                               rank_args.ascending)

\* scenario C: metrics [10, 50, 30], n = 2, descending gives [50, 30]
C10_Witness ==
    /\ pc = "ranked"
    /\ Len(enriched.rows) = 3
    /\ [i \in 1..3 |-> enriched.rows[i]["revenue_musd"]] = <<Num(10), Num(50), Num(30)>>
    /\ rank_args.n = 2 /\ ~rank_args.ascending /\ ~rank_args.has_filter
    /\ Len(ranking.rows) = 2
    /\ ranking.rows[1]["revenue_musd"] = Num(50)
    /\ ranking.rows[2]["revenue_musd"] = Num(30)


(***************************************************************************)
(* C3 as stated: in every output row of enrich_movies, a present roi       *)
(* implies budget_musd present and > 0 and revenue_musd and profit_musd    *)
(* present.                                                                *)
(***************************************************************************)
Present(df, r, c) == HasCol(df, c) /\ notna(r[c])

C3_RatioSafety ==
    Enriched =>
        \A i \in DOMAIN enriched.rows :
           LET r == enriched.rows[i]
           IN Present(enriched, r, "roi") =>
                 /\ Present(enriched, r, "budget_musd") /\ Positive(r["budget_musd"])
                 /\ Present(enriched, r, "revenue_musd")
                 /\ Present(enriched, r, "profit_musd")

(***************************************************************************)
(* C3 amended: for an input batch that has both a revenue_musd and a       *)
(* budget_musd column, a present roi implies budget_musd present and > 0   *)
(* and revenue_musd and profit_musd present; and whenever the output has   *)
(* a profit_musd and a budget_musd column, a present roi implies           *)
(* budget_musd > 0 and profit_musd present.                                *)
(***************************************************************************)
C3_RatioSafetyGivenInputs ==
    Enriched =>
        \A i \in DOMAIN enriched.rows :
           LET r == enriched.rows[i]
           IN /\ (HasCol(cleaned, "revenue_musd") /\ HasCol(cleaned, "budget_musd")
                  /\ Present(enriched, r, "roi")) =>
                    /\ Positive(r["budget_musd"])
                    /\ notna(r["revenue_musd"])
                    /\ Present(enriched, r, "profit_musd")
              /\ (HasCol(enriched, "profit_musd") /\ HasCol(enriched, "budget_musd")
                  /\ Present(enriched, r, "roi")) =>
                    /\ Positive(r["budget_musd"])
                    /\ notna(r["profit_musd"])

\* a batch with both columns: one record gets a roi, one with a budget <= 0 none
C3_Witness ==
    /\ pc = "enriched"
    /\ HasCol(cleaned, "revenue_musd") /\ HasCol(cleaned, "budget_musd")
    /\ \E i \in DOMAIN enriched.rows : notna(enriched.rows[i]["roi"])
    /\ \E i \in DOMAIN enriched.rows :
          /\ notna(enriched.rows[i]["budget_musd"])
          /\ ~Positive(enriched.rows[i]["budget_musd"])
          /\ isna(enriched.rows[i]["roi"])

(***************************************************************************)
(* C6 as stated: enrich_movies returns the input's rows in the same order, *)
(* and in every column of the input no present value becomes missing or    *)
(* is overwritten: each present input value is still there in the output.  *)
(***************************************************************************)
C6_OnlyAdds ==
    Enriched =>
        /\ Len(enriched.rows) = Len(cleaned.rows)
        /\ \A i \in DOMAIN cleaned.rows :
              \A c \in Range(cleaned.cols) :
                 notna(cleaned.rows[i][c]) => enriched.rows[i][c] = cleaned.rows[i][c]

(***************************************************************************)
(* C6 amended: enrich_movies returns the input's rows in the same order    *)
(* and the input's columns in the same order, followed by the new ones;    *)
(* every input column other than release_date and the columns it computes  *)
(* (profit_musd, roi, release_year, release_month, runtime_category,       *)
(* is_franchise, vote_score) holds the input's value; a release_date that  *)
(* is a timestamp or missing is kept, a text one is re-coerced.            *)
(***************************************************************************)
C6_AddsOrRecomputes ==
    Enriched =>
        /\ Len(enriched.rows) = Len(cleaned.rows)
        /\ SubSeq(enriched.cols, 1, Len(cleaned.cols)) = cleaned.cols
        /\ \A i \in DOMAIN cleaned.rows :
              /\ \A c \in Range(cleaned.cols) \ (DerivedColumns \cup {"release_date"}) :
                    enriched.rows[i][c] = cleaned.rows[i][c]
              /\ HasCol(cleaned, "release_date") =>
                    IF cleaned.rows[i]["release_date"].t \in {"date", "na"}
                    THEN enriched.rows[i]["release_date"] = cleaned.rows[i]["release_date"]
                    ELSE enriched.rows[i]["release_date"]
                            = to_datetime(cleaned.rows[i]["release_date"])

\* two records, new columns added, and a column named like a derived one
\* already in the input
C6_Witness ==
    /\ pc = "enriched"
    /\ Len(cleaned.rows) >= 2
    /\ Len(enriched.cols) > Len(cleaned.cols)
    /\ HasCol(cleaned, "roi")
    /\ \E i \in DOMAIN cleaned.rows : cleaned.rows[i]["release_date"] = Str("soon")

(***************************************************************************)
(* C14: run_with_retry invokes the operation at most `retries` times, one  *)
(* attempt after the other; the first successful attempt ends the call,    *)
(* its result is what the call returns, and the operation is not invoked   *)
(* again after a success.                                                  *)
(***************************************************************************)
C14_AtMostRetries ==
    /\ retry.calls <= retry.retries
    /\ retry.calls = Len(SelectSeq(retry.events, LAMBDA e : e # "wait"))
    /\ \A i \in DOMAIN retry.events :
          retry.events[i] = "ok" =>
             /\ i = Len(retry.events)
             /\ \A j \in 1..(i - 1) : retry.events[j] \in {"fail", "wait"}
             /\ retry.state = "returned"
    /\ retry.state = "returned" =>
          /\ retry.events # <<>> /\ retry.events[Len(retry.events)] = "ok"
          /\ retry.result = retry.func_returned
          /\ retry.result \in Results
          /\ retry.raised = "None"
          /\ retry.calls = retry.attempt

\* a call that succeeds at its last permitted attempt, after failures
C14_Witness ==
    /\ retry.state = "returned"
    /\ retry.retries = 3
    /\ retry.calls = 3
    /\ retry.result = "batch B"

(***************************************************************************)
(* C15: the wait after the k-th failed attempt, k < retries, is            *)
(* delay * 2^(k-1); a wait happens only between two attempts: none after   *)
(* the final failed attempt, none after a success, and there are as many   *)
(* waits as failed attempts that are followed by another attempt.          *)
(***************************************************************************)
C15_Backoff ==
    /\ \A k \in DOMAIN retry.waits : retry.waits[k] = retry.delay * (2 ^ (k - 1))
    /\ Len(retry.waits) = Len(SelectSeq(retry.events, LAMBDA e : e = "wait"))
    /\ Len(retry.waits) =
          (IF Len(retry.fails) = retry.retries /\ retry.retries > 0
           THEN retry.retries - 1 ELSE Len(retry.fails))
    /\ \A i \in DOMAIN retry.events :
          retry.events[i] = "wait" =>
             /\ i > 1 /\ retry.events[i - 1] = "fail"
             /\ IF i < Len(retry.events)
                THEN retry.events[i + 1] \in {"ok", "fail", "abort"}
                ELSE retry.state \in {"start", "try"} /\ retry.attempt <= retry.retries
                     /\ (retry.state = "start" => retry.attempt < retry.retries)
    /\ retry.state \in {"returned", "raised"} =>
          retry.events = <<>> \/ retry.events[Len(retry.events)] # "wait"

\* four attempts fail: the waits are delay, 2 * delay and 4 * delay, and no
\* wait follows the fourth failure
C15_Witness ==
    /\ retry.state = "raised"
    /\ retry.retries = 4
    /\ retry.delay = 2
    /\ retry.waits = <<2, 4, 8>>
    /\ retry.events = <<"fail", "wait", "fail", "wait", "fail", "wait", "fail">>

(***************************************************************************)
(* C16: when all `retries` attempts fail (retries >= 1), run_with_retry    *)
(* returns no value and raises the exception of the final attempt.         *)
(***************************************************************************)
C16_RaisesLast ==
    (retry.state = "raised" /\ retry.retries >= 1 /\ Len(retry.fails) = retry.retries) =>
       /\ retry.raised = retry.fails[retry.retries]
       /\ retry.result = "None"

\* the final attempt fails with another exception than the earlier ones
C16_Witness ==
    /\ retry.state = "raised"
    /\ retry.fails = <<"ConnectionError", "ConnectionError", "ValueError">>
    /\ retry.raised = "ValueError"

(***************************************************************************)
(* C17: safe_eval, extract_collection_name, extract_names_from_list and    *)
(* extract_language_codes never raise: whatever the input value, the call  *)
(* returns the extracted value or missing.                                 *)
(***************************************************************************)
C17_ParsersNeverRaise == pc = "parsed" => parse.raised = "None"

(***************************************************************************)
(* C18: when the raw batch has no id column or no title column,            *)
(* clean_movies returns zero rows.                                         *)
(***************************************************************************)
C18_EmptyWithoutIdentity ==
    (Cleaned /\ (~HasCol(raw, "id") \/ ~HasCol(raw, "title"))) => Len(cleaned.rows) = 0

(***************************************************************************)
(* Reading the analysis results against the dataset.                       *)
(***************************************************************************)
Analysed(fn) == pc = "analysed" /\ analysis.fn = fn /\ analysis.raised = "None"

\* the number of times name is a trimmed token of a director field
Occurrences(name) ==
    LET C[i \in 0..Len(enriched.rows)] ==
            IF i = 0 THEN 0
            ELSE C[i - 1] +
                 (IF isna(enriched.rows[i]["director"]) THEN 0
                  ELSE Len(SelectSeq(DirectorsOf(enriched.rows[i]["director"]),
                                     LAMBDA d : d = name)))
    IN C[Len(enriched.rows)]

\* the members of collection name in the dataset
Members(name) ==
    {i \in DOMAIN enriched.rows : enriched.rows[i]["belongs_to_collection"] = Str(name)}

RECURSIVE SumOver(_, _)
SumOver(S, c) ==
    IF S = {} THEN Num(0)
    ELSE LET i == CHOOSE x \in S : TRUE
             v == enriched.rows[i][c]
         IN IF isna(v) THEN SumOver(S \ {i}, c) ELSE AddV(v, SumOver(S \ {i}, c))

\* |a - b| <= 1/100 on numeric cells
Near(a, b) ==
    /\ a.t = "num" /\ b.t = "num"
    /\ ~LessV(Frac(1, 100), SubV(a, b))
    /\ ~LessV(Frac(1, 100), SubV(b, a))

(***************************************************************************)
(* C11: in the result of get_top_directors the movie_count of a director   *)
(* is the number of exploded rows of that director: the number of times    *)
(* the trimmed name is a token of the director fields of the dataset,      *)
(* whether or not the revenue of those movies is missing.                  *)
(***************************************************************************)
C11_MovieCount ==
    Analysed("get_top_directors") =>
       \A i \in DOMAIN analysis.result.rows :
          analysis.result.rows[i]["movie_count"] =
             Num(Occurrences(analysis.result.rows[i]["director"].s))

(***************************************************************************)
(* C12: the min_movies filter of get_top_directors keeps exactly the       *)
(* directors with at least min_movies exploded rows: no director with      *)
(* fewer is in the result, and every director with at least min_movies is  *)
(* in the result when n does not truncate it.                              *)
(***************************************************************************)
C12_MinMovies ==
    Analysed("get_top_directors") =>
       /\ \A i \in DOMAIN analysis.result.rows :
             Occurrences(analysis.result.rows[i]["director"].s) >= analysis.min_movies
       /\ (HasCol(enriched, "director") /\ analysis.n = 10) =>
             \A k \in DOMAIN NameOrder :
                (Occurrences(NameOrder[k]) >= analysis.min_movies) =>
                   \E i \in DOMAIN analysis.result.rows :
                      analysis.result.rows[i]["director"] = Str(NameOrder[k])

(***************************************************************************)
(* C13: in the result of get_top_franchises the franchise_roi of a         *)
(* franchise is the sum of profit_musd over its members divided by the sum *)
(* of budget_musd over the same members (read here for franchises whose    *)
(* members all have a profit and a budget, and to within the 0.01 of the   *)
(* two-decimal display).                                                   *)
(***************************************************************************)
C13_FranchiseRoi ==
    Analysed("get_top_franchises") =>
       \A i \in DOMAIN analysis.result.rows :
          LET name == analysis.result.rows[i]["franchise"].s
              total_profit == SumOver(Members(name), "profit_musd")
              total_budget == SumOver(Members(name), "budget_musd")
          IN (/\ \A m \in Members(name) :
                    /\ notna(enriched.rows[m]["profit_musd"])
                    /\ notna(enriched.rows[m]["budget_musd"])
              /\ total_budget.n # 0)
             => Near(analysis.result.rows[i]["franchise_roi"],
                     DivV(total_profit, total_budget))

(***************************************************************************)
(* C20: get_top_directors on a dataset without a director column,          *)
(* get_top_franchises on one without belongs_to_collection, and            *)
(* compare_franchise_vs_standalone on one with neither is_franchise nor    *)
(* belongs_to_collection return an empty result, log a warning and do not  *)
(* raise.                                                                  *)
(***************************************************************************)
C20_EmptyWithoutColumn ==
    (/\ pc = "analysed"
     /\ \/ analysis.fn = "get_top_directors" /\ ~HasCol(enriched, "director")
        \/ analysis.fn = "get_top_franchises" /\ ~HasCol(enriched, "belongs_to_collection")
        \/ /\ analysis.fn = "compare_franchise_vs_standalone"
           /\ ~HasCol(enriched, "belongs_to_collection")
           /\ ~HasCol(enriched, "is_franchise"))
    => /\ analysis.raised = "None"
       /\ analysis.warned
       /\ analysis.result.cols = <<>>
       /\ analysis.result.rows = <<>>

\* the comparison called on two movies that have neither column
C20_Witness ==
    /\ pc = "analysed"
    /\ analysis.fn = "compare_franchise_vs_standalone"
    /\ Len(enriched.rows) = 2
    /\ ~HasCol(enriched, "belongs_to_collection")
    /\ ~HasCol(enriched, "is_franchise")
    /\ analysis.warned

(***************************************************************************)
(* C19: when the ranking column or the column a leaderboard's pre-filter   *)
(* reads is absent from the dataset, the leaderboard functions and         *)
(* get_all_rankings return an empty or degraded result and do not raise.   *)
(***************************************************************************)
C19_NoRaiseWithoutColumn ==
    LET Lacks(b) == \/ ~HasCol(enriched, b.column)
                    \/ b.filter # "" /\ ~HasCol(enriched, b.filter)
    IN (/\ pc = "analysed"
        /\ IF analysis.fn = "get_all_rankings"
           THEN \E k \in DOMAIN Leaderboards : Lacks(Leaderboards[k])
           ELSE \E k \in DOMAIN Leaderboards :
                   Leaderboards[k].name = analysis.fn /\ Lacks(Leaderboards[k]))
       => analysis.raised = "None"

(***************************************************************************)
(* enrich_movies called on batches that differ in runtime: values on both  *)
(* sides of and on the bounds 90 and 150, halves next to them, and missing *)
(* ones.                                                                   *)
(***************************************************************************)
MaxRuntimeRows == 2

Runtimes ==
    {NA, Num(1), Num(89), Frac(179, 2), Num(90), Num(120), Num(150),
     Frac(301, 2), Num(151)}

RuntimeBatch(runtimes, absent) ==
    DropCols(AssignCol(EnrichBatch([i \in DOMAIN runtimes |->
                                      [budget_musd |-> Num(100),
                                       revenue_musd |-> Num(500),
                                       stale |-> FALSE]], {}),
                       "runtime", runtimes),
             SetToSeq(absent, EnrichColumnOrder))

InitRuntime ==
    /\ \E k \in 0..MaxRuntimeRows :
          \E runtimes \in [1..k -> Runtimes] :
             \E absent \in {{}, {"runtime_category"}, {"runtime", "runtime_category"}} :
                cleaned = RuntimeBatch(runtimes, absent)
    /\ raw = EmptyFrame
    /\ enriched = EmptyFrame
    /\ recleaned = EmptyFrame
    /\ rank_args = NoArgs
    /\ ranking = EmptyFrame
    /\ pc = "cleaned"
    /\ Idle

NextRuntime == Enrich

SpecRuntime == InitRuntime /\ [][NextRuntime]_vars

(***************************************************************************)
(* C22: enrich_movies gives every record exactly one runtime_category:     *)
(* 'Short' when runtime < 90, 'Medium' when 90 <= runtime <= 150, 'Long'   *)
(* when runtime > 150, and a missing one when the runtime is missing.      *)
(***************************************************************************)
C22_RuntimeBuckets ==
    (pc = "enriched" /\ HasCol(cleaned, "runtime")) =>
        /\ HasCol(enriched, "runtime_category")
        /\ Len(enriched.rows) = Len(cleaned.rows)
        /\ \A i \in DOMAIN cleaned.rows :
              LET m == cleaned.rows[i]["runtime"]
                  b == enriched.rows[i]["runtime_category"]
              IN IF isna(m) THEN isna(b)
                 ELSE /\ b = Str("Short") <=> m.n < 90 * m.d
                      /\ b = Str("Medium") <=> (90 * m.d <= m.n /\ m.n <= 150 * m.d)
                      /\ b = Str("Long") <=> m.n > 150 * m.d
                      /\ b \in {Str("Short"), Str("Medium"), Str("Long")}

\* a batch with a runtime on a bound and a missing runtime has been enriched
C22_Witness ==
    /\ pc = "enriched"
    /\ HasCol(cleaned, "runtime")
    /\ \E i, j \in DOMAIN cleaned.rows :
          /\ cleaned.rows[i]["runtime"] \in {Num(90), Num(150)}
          /\ enriched.rows[i]["runtime_category"] = Str("Medium")
          /\ isna(cleaned.rows[j]["runtime"])
          /\ isna(enriched.rows[j]["runtime_category"])

(***************************************************************************)
(* enrich_movies on a batch, then compare_franchise_vs_standalone on the   *)
(* enriched dataset.                                                       *)
(***************************************************************************)
NextFlag == Enrich \/ CompareFranchise

SpecFlag == InitEnrich /\ [][NextFlag]_vars

\* the number of rows of df whose belongs_to_collection is present / missing
CountCollection(df, present) ==
    Cardinality({i \in DOMAIN df.rows :
                    notna(df.rows[i]["belongs_to_collection"]) = present})

\* the Movie Count row of a comparison
MovieCountRow(result) ==
    result.rows[CHOOSE i \in DOMAIN result.rows :
                   result.rows[i]["metric"] = Str("Movie Count")]

(***************************************************************************)
(* C23: for a dataset with a belongs_to_collection column, enrich_movies   *)
(* sets is_franchise true exactly for the records whose                    *)
(* belongs_to_collection is present, and the comparison of the enriched    *)
(* dataset counts every record in exactly one group according to that     *)
(* flag: the Franchise and Standalone movie counts are the numbers of      *)
(* records with and without a collection and sum to the number of records. *)
(***************************************************************************)
C23_FlagPartition ==
    /\ (Enriched /\ HasCol(cleaned, "belongs_to_collection")) =>
          /\ HasCol(enriched, "is_franchise")
          /\ \A i \in DOMAIN cleaned.rows :
                enriched.rows[i]["is_franchise"]
                   = Bool(notna(cleaned.rows[i]["belongs_to_collection"]))
    /\ (pc = "analysed" /\ analysis.fn = "compare_franchise_vs_standalone"
        /\ HasCol(cleaned, "belongs_to_collection")) =>
          /\ analysis.raised = "None"
          /\ \E i \in DOMAIN analysis.result.rows :
                analysis.result.rows[i]["metric"] = Str("Movie Count")
          /\ LET row == MovieCountRow(analysis.result)
             IN /\ row["Franchise"] = Num(CountCollection(cleaned, TRUE))
                /\ row["Standalone"] = Num(CountCollection(cleaned, FALSE))
                /\ row["Franchise"].n + row["Standalone"].n = Len(cleaned.rows)

\* a batch with a record in a collection and one without, whose stale
\* is_franchise column said otherwise, has been enriched and compared
C23_Witness ==
    /\ pc = "analysed"
    /\ analysis.fn = "compare_franchise_vs_standalone"
    /\ HasCol(cleaned, "belongs_to_collection")
    /\ HasCol(cleaned, "is_franchise")
    /\ CountCollection(cleaned, TRUE) >= 1
    /\ CountCollection(cleaned, FALSE) >= 1
    /\ \E i \in DOMAIN cleaned.rows :
          /\ cleaned.rows[i]["is_franchise"] = Bool(TRUE)
          /\ enriched.rows[i]["is_franchise"] = Bool(FALSE)

(***************************************************************************)
(* A pipeline run followed by the read-only consumers: clean_movies on a   *)
(* raw batch, enrich_movies on the cleaned one, then get_top_movies,       *)
(* get_top_directors or get_top_franchises on the enriched one.            *)
(***************************************************************************)
MaxFrameRows == 2

FrameChoices == {ch \in IdentityChoices : ch.id # NA /\ ch.title # NA}

InitFrame ==
    /\ \E k \in 0..MaxFrameRows :
          \E chs \in [1..k -> FrameChoices] : raw = RawBatch(chs, {})
    /\ cleaned = EmptyFrame
    /\ enriched = EmptyFrame
    /\ recleaned = EmptyFrame
    /\ rank_args = NoArgs
    /\ ranking = EmptyFrame
    /\ pc = "raw"
    /\ Idle

NextFrame == Clean \/ Enrich \/ Rank \/ TopDirectors \/ TopFranchises

SpecFrame == InitFrame /\ [][NextFrame]_vars

Remaining(c) ==
    \/ HasCol(raw, c) /\ ~InSeq(c, COLUMNS_TO_DROP) /\ c # "status"
    \/ c = "budget_musd" /\ HasCol(raw, "budget")
    \/ c = "revenue_musd" /\ HasCol(raw, "revenue")

(***************************************************************************)
(* C25: the columns of the output of clean_movies are the columns of       *)
(* FINAL_COLUMN_ORDER that exist in the data, in that order, followed by   *)
(* every other remaining column in its previous relative order; no column  *)
(* is lost or duplicated, and the output rows are in their input relative  *)
(* order.                                                                  *)
(***************************************************************************)
C25_ColumnOrder ==
    (pc = "cleaned") =>
        /\ cleaned.cols = SelectSeq(FINAL_COLUMN_ORDER, Remaining)
                             \o SelectSeq(raw.cols, LAMBDA c : Remaining(c)
                                                      /\ ~InSeq(c, FINAL_COLUMN_ORDER))
        /\ Cardinality(Range(cleaned.cols)) = Len(cleaned.cols)
        /\ \A i \in DOMAIN cleaned.rows : DOMAIN cleaned.rows[i] = Range(cleaned.cols)
        /\ \A i, j \in DOMAIN cleaned.rows :
              i < j => SrcIndex(cleaned.rows[i]) < SrcIndex(cleaned.rows[j])

\* two records are kept; the batch had two columns outside the canonical
\* order, which now come last, and id, which was not first, now is
C25_Witness ==
    /\ pc = "cleaned"
    /\ Len(cleaned.rows) >= 2
    /\ raw.cols[1] # "id"
    /\ cleaned.cols[1] = "id"
    /\ SubSeq(cleaned.cols, Len(cleaned.cols) - 1, Len(cleaned.cols)) = <<"budget", "revenue">>

(***************************************************************************)
(* The director leaderboards called on datasets in which every movie has   *)
(* a director, a revenue and a rating.                                     *)
(***************************************************************************)
MaxRankedDirectorRows == 3

RankedDirectorChoices ==
    [director : {Str("X"), Str("X|Y"), Str("Z")},
     revenue_musd : {Num(100), Num(300)},
     budget_musd : {Num(100)}, collection : {Str("Saga")}]

InitDirectors ==
    /\ \E k \in 0..MaxRankedDirectorRows :
          \E chs \in [1..k -> RankedDirectorChoices] : enriched = AnalysisFrame(chs, {})
    /\ raw = EmptyFrame
    /\ cleaned = EmptyFrame
    /\ recleaned = EmptyFrame
    /\ rank_args = NoArgs
    /\ ranking = EmptyFrame
    /\ pc = "enriched"
    /\ Idle

DirectorsByMovieCount ==
    /\ pc = "enriched"
    /\ \E n \in {1, 2} :
          \E o \in get_directors_by_movie_count(enriched, n) :
             analysis' = [fn |-> "get_directors_by_movie_count", n |-> n, min_movies |-> 1,
                          result |-> o.result, rankings |-> <<>>,
                          raised |-> o.raised, warned |-> o.warned]
    /\ pc' = "analysed"
    /\ UNCHANGED <<raw, cleaned, enriched, recleaned, rank_args, ranking, parse, retry, run>>

DirectorsByRating ==
    /\ pc = "enriched"
    /\ \E n \in {1, 2}, min_movies \in {1, 2} :
          \E o \in get_directors_by_rating(enriched, n, min_movies) :
             analysis' = [fn |-> "get_directors_by_rating", n |-> n,
                          min_movies |-> min_movies,
                          result |-> o.result, rankings |-> <<>>,
                          raised |-> o.raised, warned |-> o.warned]
    /\ pc' = "analysed"
    /\ UNCHANGED <<raw, cleaned, enriched, recleaned, rank_args, ranking, parse, retry, run>>

NextDirectors == DirectorsByMovieCount \/ DirectorsByRating

SpecDirectors == InitDirectors /\ [][NextDirectors]_vars

\* the directors of the dataset with at least min_movies movies
DirectorsWith(min_movies) ==
    {d \in Range(NameOrder) : Occurrences(d) >= 1 /\ Occurrences(d) >= min_movies}

\* the directors named in the result
Returned == {analysis.result.rows[i]["director"].s : i \in DOMAIN analysis.result.rows}

\* the rows of the dataset that name director d
MoviesOf(d) ==
    {i \in DOMAIN enriched.rows : InSeq(d, DirectorsOf(enriched.rows[i]["director"]))}

\* the mean vote_average of the movies of director d
MeanRating(d) == DivV(SumOver(MoviesOf(d), "vote_average"), Num(Cardinality(MoviesOf(d))))

(***************************************************************************)
(* C26: get_directors_by_movie_count(df, n) returns the n directors with   *)
(* the highest movie_count among all directors of the dataset, and         *)
(* get_directors_by_rating(df, n, min_movies) the n directors with the     *)
(* highest mean rating among all directors with at least min_movies        *)
(* movies: no director left out has more movies (a higher mean rating)     *)
(* than one returned, whatever their total revenues.                       *)
(***************************************************************************)
C26_TopByOwnMetric ==
    /\ Analysed("get_directors_by_movie_count") =>
          /\ Cardinality(Returned) = Min(analysis.n, Cardinality(DirectorsWith(1)))
          /\ \A d \in Returned, e \in DirectorsWith(1) \ Returned :
                Occurrences(d) >= Occurrences(e)
    /\ Analysed("get_directors_by_rating") =>
          /\ Cardinality(Returned)
                = Min(analysis.n, Cardinality(DirectorsWith(analysis.min_movies)))
          /\ \A d \in Returned, e \in DirectorsWith(analysis.min_movies) \ Returned :
                ~LessV(MeanRating(d), MeanRating(e))

(***************************************************************************)
(* A run of main (src/orchestrator/run_pipeline.py): the extraction under  *)
(* run_with_retry(retries=3, delay=2.0), with fetch_movies followed one    *)
(* identifier at a time, then the statements of main in order.  A request  *)
(* for an identifier may succeed or fail at each invocation, and building  *)
(* the client may fail.                                                    *)
(***************************************************************************)
MaxIds == 2

\* MOVIE_IDS
MOVIE_IDS == [k \in 1..MaxIds |-> k]

\* the record the source returns for an identifier
MovieRecord(id) ==
    [id |-> Num(id), title |-> Str("T"), status |-> Str("Released"), fill |-> "full",
     budget |-> Num(5 * Million), revenue |-> Str("5000000"), runtime |-> Num(120),
     genres |-> List(<<"Action", "Drama">>), collection |-> Dict("Saga")]

\* pd.DataFrame(movies_data): no record gives a frame without columns
MoviesFrame(movies_data) ==
    IF movies_data = <<>> THEN EmptyFrame
    ELSE RawBatch([k \in DOMAIN movies_data |-> MovieRecord(movies_data[k])], {})

\* faulty variant of main_after: the cleaned batch is enriched before it is saved
main_after_unsaved(stage) ==
    CASE stage = "extract" -> "save_raw"
      [] stage = "save_raw" -> "clean"
      [] stage = "clean" -> "enrich"
      [] stage = "save_cleaned" -> "analysis"
      [] stage = "enrich" -> "save_cleaned"
      [] stage = "save_enriched" -> "analysis"
      [] stage = "analysis" -> "visualization"
      [] OTHER -> "done"

\* the statement of main that follows a statement that completed
main_after(stage) ==
    CASE stage = "extract" -> "save_raw"
      [] stage = "save_raw" -> "clean"
      [] stage = "clean" -> "save_cleaned"
      [] stage = "save_cleaned" -> "enrich"
      [] stage = "enrich" -> "save_enriched"
      [] stage = "save_enriched" -> "analysis"
      [] stage = "analysis" -> "visualization"
      [] OTHER -> "done"

\* the file a save statement writes
SavedFile(stage) ==
    CASE stage = "save_raw" -> "data/raw/movies_raw.csv"
      [] stage = "save_cleaned" -> "data/processed/movies_cleaned.csv"
      [] OTHER -> "data/analytics/movies_final.csv"

\* the statement at run.stage completes and main goes on to the next
Completed(r) == [r EXCEPT !.stage = main_after(r.stage), !.log = Append(@, r.stage)]

\* an exception leaves main: the entry point prints it and exits
Failed(r) == [r EXCEPT !.stage = "failed"]

InitMain ==
    /\ run = [NoRun EXCEPT !.stage = "extract", !.requests = [k \in 1..MaxIds |-> 0]]
    /\ retry = [NoRetry EXCEPT !.state = "start", !.retries = 3, !.delay = 2]
    /\ raw = EmptyFrame
    /\ cleaned = EmptyFrame
    /\ enriched = EmptyFrame
    /\ recleaned = EmptyFrame
    /\ rank_args = NoArgs
    /\ ranking = EmptyFrame
    /\ pc = "main"
    /\ analysis = NoAnalysis
    /\ parse = NoParse

\* func() is called: fetch_movies builds the client, which may raise while
\* it loads the configuration, and starts its loop with empty lists
FetchStart ==
    /\ run.stage = "extract" /\ retry.state = "try" /\ run.fetch = "idle"
    /\ \/ /\ retry' = attempt_failed(retry, "AttributeError")
          /\ UNCHANGED run
       \/ /\ run' = [run EXCEPT !.fetch = "loop", !.i = 0,
                                !.movies_data = <<>>, !.failed_ids = <<>>]
          /\ UNCHANGED retry
    /\ UNCHANGED <<raw, cleaned, enriched, recleaned, rank_args, ranking, pc, analysis, parse>>

\* one pass of the loop of fetch_movies: get_movie and get_credits for the
\* next identifier; an exception of either is caught in the loop and the
\* identifier goes to failed_ids
FetchMovie ==
    /\ run.fetch = "loop" /\ run.i < Len(MOVIE_IDS)
    /\ LET movie_id == MOVIE_IDS[run.i + 1]
       IN \E outcome \in {"ok", "get_movie raises", "get_credits raises"} :
             run' = [run EXCEPT
                       !.i = @ + 1,
                       !.requests[run.i + 1] = @ + 1,
                       !.movies_data = IF outcome = "ok" THEN Append(@, movie_id) ELSE @,
                       !.failed_ids = IF outcome = "ok" THEN @ ELSE Append(@, movie_id)]
    /\ UNCHANGED <<raw, cleaned, enriched, recleaned, rank_args, ranking, pc, analysis,
                   parse, retry>>

\* the loop is over: fetch_movies returns the frame of movies_data, and
\* run_with_retry returns it to main
FetchReturn ==
    /\ run.fetch = "loop" /\ run.i = Len(MOVIE_IDS)
    /\ raw' = MoviesFrame(run.movies_data)
    /\ retry' = attempt_returned(retry, "batch A")
    /\ run' = [run EXCEPT !.fetch = "idle"]
    /\ UNCHANGED <<cleaned, enriched, recleaned, rank_args, ranking, pc, analysis, parse>>

\* run_with_retry has returned raw_df
MainExtracted ==
    /\ run.stage = "extract" /\ retry.state = "returned"
    /\ run' = Completed(run)
    /\ UNCHANGED <<raw, cleaned, enriched, recleaned, rank_args, ranking, pc, analysis,
                   parse, retry>>

\* run_with_retry has raised: the exception leaves main
MainExtractFailed ==
    /\ run.stage = "extract" /\ retry.state = "raised"
    /\ run' = Failed(run)
    /\ UNCHANGED <<raw, cleaned, enriched, recleaned, rank_args, ranking, pc, analysis,
                   parse, retry>>

\* save_raw_data, save_cleaned_data, save_enriched_data
MainSave ==
    /\ run.stage \in {"save_raw", "save_cleaned", "save_enriched"}
    /\ run' = [Completed(run) EXCEPT !.files = @ \cup {SavedFile(run.stage)}]
    /\ UNCHANGED <<raw, cleaned, enriched, recleaned, rank_args, ranking, pc, analysis,
                   parse, retry>>

\* cleaned_df = clean_movies(raw_df, transform_logger)
MainClean ==
    /\ run.stage = "clean"
    /\ cleaned' = clean_movies(raw)
    /\ raw' = clean_movies_caller(raw)
    /\ run' = Completed(run)
    /\ UNCHANGED <<enriched, recleaned, rank_args, ranking, pc, analysis, parse, retry>>

\* enriched_df = enrich_movies(cleaned_df, transform_logger)
MainEnrich ==
    /\ run.stage = "enrich"
    /\ enriched' = enrich_movies(cleaned)
    /\ cleaned' = enrich_movies_caller(cleaned)
    /\ run' = Completed(run)
    /\ UNCHANGED <<raw, recleaned, rank_args, ranking, pc, analysis, parse, retry>>

\* the analysis block: get_all_rankings(enriched_df, n=5) and the printed
\* reports; an exception of get_all_rankings leaves main
MainAnalysis ==
    /\ run.stage = "analysis"
    /\ \E raised \in {o.raised : o \in get_all_rankings(enriched, 5)} :
          /\ analysis' = [NoAnalysis EXCEPT !.fn = "get_all_rankings", !.n = 5,
                                            !.raised = raised]
          /\ run' = IF raised = "None" THEN Completed(run) ELSE Failed(run)
    /\ UNCHANGED <<raw, cleaned, enriched, recleaned, rank_args, ranking, pc, parse, retry>>

\* create_all_visualizations writes the charts, or raises
MainVisualize ==
    /\ run.stage = "visualization"
    /\ \/ run' = Completed(run)
       \/ run' = Failed(run)
    /\ UNCHANGED <<raw, cleaned, enriched, recleaned, rank_args, ranking, pc, analysis,
                   parse, retry>>

NextMain ==
    \/ RetryLoop \/ RetryExhausted
    \/ FetchStart \/ FetchMovie \/ FetchReturn
    \/ MainExtracted \/ MainExtractFailed \/ MainSave \/ MainClean \/ MainEnrich
    \/ MainAnalysis \/ MainVisualize

SpecMain == InitMain /\ [][NextMain]_vars

(***************************************************************************)
(* C27: when the request for one identifier fails during a run, it is      *)
(* re-attempted under the retry policy before the identifier is recorded   *)
(* as a skip: an identifier in failed_ids has been requested more than     *)
(* once.                                                                   *)
(***************************************************************************)
C27_RetriedBeforeSkip ==
    pc = "main" =>
        \A k \in DOMAIN MOVIE_IDS :
           InSeq(MOVIE_IDS[k], run.failed_ids) => run.requests[k] > 1

\* the statements of main in the order of the file
StageOrder ==
    <<"extract", "save_raw", "clean", "save_cleaned", "enrich", "save_enriched",
      "analysis", "visualization">>

\* statement s of main has completed
Done(s) == InSeq(s, run.log)

(***************************************************************************)
(* C28: in a run of main the stages execute in the order extract, clean,   *)
(* enrich, analysis, visualization; a stage starts only after the one      *)
(* before has completed on the whole dataset and its file is written; and  *)
(* when the extraction fails after its retries no later stage runs and no  *)
(* raw, cleaned or enriched file is written.                               *)
(***************************************************************************)
C28_StageOrder ==
    pc = "main" =>
        /\ Len(run.log) <= Len(StageOrder)
        /\ run.log = SubSeq(StageOrder, 1, Len(run.log))
        /\ run.files = {SavedFile(st) : st \in {x \in {"save_raw", "save_cleaned",
                                                      "save_enriched"} : Done(x)}}
        /\ Done("clean") => "data/raw/movies_raw.csv" \in run.files
        /\ Done("enrich") => "data/processed/movies_cleaned.csv" \in run.files
        /\ Done("analysis") => "data/analytics/movies_final.csv" \in run.files
        /\ Done("extract") => Len(raw.rows) = Len(run.movies_data)
        /\ ~Done("clean") => cleaned = EmptyFrame
        /\ ~Done("enrich") => enriched = EmptyFrame
        /\ Done("enrich") => Len(enriched.rows) = Len(cleaned.rows)
        /\ retry.state = "raised" =>
              /\ run.log = <<>>
              /\ run.files = {}
              /\ raw = EmptyFrame /\ cleaned = EmptyFrame /\ enriched = EmptyFrame
              /\ run.stage \in {"extract", "failed"}

\* a run that failed its first extraction attempt, then fetched a movie and
\* went through every stage, with the three files written
C28_Witness ==
    /\ pc = "main"
    /\ run.stage = "done"
    /\ retry.fails # <<>>
    /\ Len(enriched.rows) >= 1
    /\ Cardinality(run.files) = 3

\* row i of the raw batch is the first one with its id
FirstOfId(i) ==
    /\ notna(to_numeric(raw.rows[i]["id"]))
    /\ \A j \in 1..(i - 1) : to_numeric(raw.rows[j]["id"]) # to_numeric(raw.rows[i]["id"])

\* the record at row i of the raw batch is in the cleaned batch
Kept(i) ==
    \E k \in DOMAIN cleaned.rows :
       cleaned.rows[k]["poster_path"] = raw.rows[i]["poster_path"]

(***************************************************************************)
(* C29: clean_movies removes duplicates before it filters: when the first  *)
(* row with an id is removed by a later step (no title, fewer than 10      *)
(* present fields, or a status other than 'Released'), no row with that id *)
(* is in the output, even when a later row with the same id would have     *)
(* passed every filter.                                                    *)
(***************************************************************************)
C29_FirstOccurrenceDecides ==
    (pc = "cleaned" /\ HasCol(raw, "id")) =>
        \A i \in DOMAIN raw.rows :
           (FirstOfId(i) /\ ~Kept(i)) =>
              \A k \in DOMAIN cleaned.rows :
                 cleaned.rows[k]["id"] # to_numeric(raw.rows[i]["id"])

\* two rows with the same id: the first has no title, the second has one
\* and is released, and neither is in the output
C29_Witness ==
    /\ pc = "cleaned"
    /\ HasCol(raw, "id") /\ HasCol(raw, "title") /\ HasCol(raw, "status")
    /\ \E i, j \in DOMAIN raw.rows :
          /\ i < j
          /\ FirstOfId(i)
          /\ to_numeric(raw.rows[j]["id"]) = to_numeric(raw.rows[i]["id"])
          /\ isna(raw.rows[i]["title"])
          /\ notna(raw.rows[j]["title"])
          /\ raw.rows[j]["status"] = Str("Released")
          /\ ~Kept(i) /\ ~Kept(j)

(***************************************************************************)
(* C30: when run_with_retry is called with retries <= 0 the operation is   *)
(* never invoked and no wait occurs; the call returns no value but ends    *)
(* with an error, and that error is no exception of the operation: there   *)
(* is no last failure to raise again.                                      *)
(***************************************************************************)
C30_NoAttempts ==
    (pc = "retry" /\ retry.retries <= 0) =>
        /\ retry.calls = 0
        /\ retry.attempt = 0
        /\ retry.events = <<>>
        /\ retry.waits = <<>>
        /\ retry.fails = <<>>
        /\ retry.state \in {"start", "raised"}
        /\ retry.result = "None" /\ retry.func_returned = "None"
        /\ retry.state = "raised" =>
              /\ retry.last_exception = "None"
              /\ retry.raised = "TypeError"
              /\ retry.raised \notin Exceptions

\* a call with retries = 0 has ended with the TypeError of `raise None`
C30_Witness ==
    /\ pc = "retry"
    /\ retry.retries = 0
    /\ retry.state = "raised"
    /\ retry.raised = "TypeError"

====
